---------------------------- MODULE Spec2Model ----------------------------
(***************************************************************************)
(* A model of dlapp/configuration.py: property records with validation and *)
(* callback hooks, namespaces, the configuration manager with its dotted   *)
(* hierarchy, the singleton accessors getConfigManager / getConfig /       *)
(* getConfigRecord, and the application side AppConfig resolver.           *)
(*                                                                         *)
(* Python strings are sequences of one-character strings, so that rfind,   *)
(* slicing and the two name regular expressions are computed, not assumed. *)
(* Python values are records [t, n, s]: an int n, a str s or None.         *)
(* Every library call is a pure operator from the state it reads to an     *)
(* outcome record holding the state it leaves, the value it returns and    *)
(* the exception it raises ("None" when it returns normally).              *)
(***************************************************************************)
EXTENDS Integers, Sequences, FiniteSets, TLC

VARIABLES
    configuration_manager,  \* the module global of configuration.py:497
    namespace,              \* one ConfigNamespace object held by a caller
    record,                 \* one property record held by a caller
    appcfg,                 \* the attributes of one AppConfig object
    last,                   \* the last call: its name, inputs and outcome
    threads,                \* each thread's place in getConfig and locals
    heap,                   \* the registry objects the threads constructed
    lock                    \* the lock of the callers, when they keep one

vars == <<configuration_manager, namespace, record, appcfg, last,
          threads, heap, lock>>

(***************************************************************************)
(* Bounds of the model.                                                    *)
(***************************************************************************)
MaxBatch == 2       \* entries of one add_properties / getConfig batch
MaxNameLen == 4     \* characters of a name given to the name tests
MaxCalls == 2       \* calls of the accessors one thread makes

(***************************************************************************)
(* Strings.                                                                *)
(***************************************************************************)
NS_SEP == "."
DEFAULT_NS == <<"_", "_", "D", "E", "F", "A", "U", "L", "T">>

Lower == {"a", "b", "c", "d", "e", "f", "g", "h", "i", "j", "k", "l", "m",
          "n", "o", "p", "q", "r", "s", "t", "u", "v", "w", "x", "y", "z"}
Upper == {"A", "B", "C", "D", "E", "F", "G", "H", "I", "J", "K", "L", "M",
          "N", "O", "P", "Q", "R", "S", "T", "U", "V", "W", "X", "Y", "Z"}
Digit == {"0", "1", "2", "3", "4", "5", "6", "7", "8", "9"}

AlphaChars == Lower \cup Upper
WordChars == Lower \cup Upper \cup Digit \cup {"_"}
AlphaUnderChars == Lower \cup Upper \cup {"_"}

\* the character class [A-Za-z]
IsAlpha(c) == c \in AlphaChars
\* the character class [_a-zA-Z0-9]
IsWord(c) == c \in WordChars
\* the character class [_A-Za-z]
IsAlphaUnder(c) == c \in AlphaUnderChars

\* str.rfind(c): the last (1-based) index of c in s, 0 when Python gives -1
RFind(s, c) ==
    LET hits == {i \in 1..Len(s) : s[i] = c}
    IN  IF hits = {} THEN 0 ELSE CHOOSE i \in hits : \A j \in hits : j <= i

\* the positions a greedy-or-not [_a-zA-Z0-9]* can stop at when started at i
WordRun(s, i) ==
    {j \in i..(Len(s) + 1) : \A k \in i..(j - 1) : IsWord(s[k])}

\* the regular expression anchor $: the end, or just before a final newline
AtEnd(s, j) == j = Len(s) + 1 \/ (j = Len(s) /\ s[j] = "\n")

\* one pass of the group (\.?[_A-Za-z][_a-zA-Z0-9]*) from the positions P
GroupStep(s, P) ==
    UNION {UNION {WordRun(s, q + 1) :
                    q \in {r \in {p} \cup (IF p <= Len(s) /\ s[p] = NS_SEP
                                            THEN {p + 1} ELSE {}) :
                             r <= Len(s) /\ IsAlphaUnder(s[r])}} : p \in P}

RECURSIVE GroupStar(_, _)
GroupStar(s, P) ==
    LET N == P \cup GroupStep(s, P)
    IN  IF N = P THEN P ELSE GroupStar(s, N)

\* re.match(VALID_PROPERTY_NAMES, s)
MatchPropertyName(s) ==
    /\ Len(s) >= 1
    /\ IsAlpha(s[1])
    /\ \E j \in WordRun(s, 2) : AtEnd(s, j)

\* re.match(VALID_NS_NAMES, s)
MatchNsName(s) ==
    /\ Len(s) >= 1
    /\ IsAlpha(s[1])
    /\ \E j \in GroupStar(s, WordRun(s, 2)) : AtEnd(s, j)

ispropertynamevalid(name) == name # <<>> /\ MatchPropertyName(name)

isnsnamevalid(name) ==
    name # <<>> /\ (name = DEFAULT_NS \/ MatchNsName(name))

(***************************************************************************)
(* Values and the hooks a caller can hang on a record.  The validation     *)
(* and format functions are those of the repository's tests.               *)
(***************************************************************************)
IntV(n) == [t |-> "int", n |-> n, s |-> <<>>]
StrV(s) == [t |-> "str", n |-> 0, s |-> s]
NoneV == [t |-> "none", n |-> 0, s |-> <<>>]

\* tstvalidate: raises unless the value is a number in 1..9
tstvalidate(name, value) ==
    IF value.t = "int" /\ value.n > 0 /\ value.n < 10
    THEN "None" ELSE "ValidationException"

\* the exception a validate hook raises on (name, value), "None" if it passes
CallValidate(hook, name, value) ==
    IF hook = "tstvalidate" THEN tstvalidate(name, value) ELSE "None"

\* the exception a callback hook raises: tstcallback always raises
CallCallback(hook, name, value) ==
    IF hook = "tstcallback" THEN "CallbackException" ELSE "None"

(***************************************************************************)
(* ConfigPropertyRecord / ConfigPropertyRecordExt.                         *)
(***************************************************************************)
\* a record built by ConfigPropertyRecordExt(name, **kwargs): no hook runs
NewRecord(name, hasvalue, value, validate, callback) ==
    [kind |-> "rec", name |-> name,
     value |-> IF hasvalue THEN value ELSE NoneV, hasvalue |-> hasvalue,
     validate |-> validate, callback |-> callback]

\* the description of one property in a batch: a bare value, or a dict
\* with optional value, validate and callback
BareDefn(v) == [isdict |-> FALSE, hasvalue |-> TRUE, value |-> v,
                validate |-> "None", callback |-> "None"]
DictDefn(hasvalue, v, validate, callback) ==
    [isdict |-> TRUE, hasvalue |-> hasvalue,
     value |-> IF hasvalue THEN v ELSE NoneV,
     validate |-> validate, callback |-> callback]

\* config_property_record_factory(name, **defn) / (name, value=defn)
RecordFromDefn(name, defn) ==
    NewRecord(name, defn.hasvalue, defn.value, defn.validate, defn.callback)

\* what the value setter stores once validation has passed
StoreValue(rec, value) == [rec EXCEPT !.value = value, !.hasvalue = TRUE]

\* a slip the setter could have: the value is stored before it is validated
SetValue_storefirst(rec, value) ==
    LET stored == StoreValue(rec, value)
        vexc == IF rec.validate # "None"
                THEN CallValidate(rec.validate, rec.name, value) ELSE "None"
    IN  [rec |-> stored, exc |-> vexc,
         events |-> <<[ev |-> "store", name |-> rec.name, value |-> value],
                      [ev |-> "validate", name |-> rec.name,
                       value |-> value]>>]

\* a slip the setter could have: a callback that raises undoes the store
SetValue_rollback(rec, value) ==
    LET vexc == IF rec.validate # "None"
                THEN CallValidate(rec.validate, rec.name, value) ELSE "None"
        vev == IF rec.validate # "None"
               THEN <<[ev |-> "validate", name |-> rec.name, value |-> value]>>
               ELSE <<>>
        cexc == IF rec.callback # "None"
                THEN CallCallback(rec.callback, rec.name, value) ELSE "None"
        cev == IF rec.callback # "None"
               THEN <<[ev |-> "callback", name |-> rec.name, value |-> value]>>
               ELSE <<>>
    IN  IF vexc # "None"
        THEN [rec |-> rec, exc |-> vexc, events |-> vev]
        ELSE [rec |-> IF cexc # "None" THEN rec ELSE StoreValue(rec, value),
              exc |-> cexc,
              events |-> vev
                  \o <<[ev |-> "store", name |-> rec.name, value |-> value]>>
                  \o cev]

\* ConfigPropertyRecordExt.value = value.  events lists, in order, what ran.
SetValue(rec, value) ==
    LET vexc == IF rec.validate # "None"
                THEN CallValidate(rec.validate, rec.name, value) ELSE "None"
        vev == IF rec.validate # "None"
               THEN <<[ev |-> "validate", name |-> rec.name, value |-> value]>>
               ELSE <<>>
        stored == StoreValue(rec, value)
        sev == <<[ev |-> "store", name |-> rec.name, value |-> value]>>
        cexc == IF rec.callback # "None"
                THEN CallCallback(rec.callback, stored.name, stored.value)
                ELSE "None"
        cev == IF rec.callback # "None"
               THEN <<[ev |-> "callback", name |-> stored.name,
                       value |-> stored.value]>>
               ELSE <<>>
    IN  IF vexc # "None"
        THEN [rec |-> rec, exc |-> vexc, events |-> vev]
        ELSE [rec |-> stored, exc |-> cexc, events |-> vev \o sev \o cev]

\* a slip the getter could have: an unset value reads as None
GetValue_default(rec) == [exc |-> "None", ret |-> rec.value]

\* ConfigPropertyRecord.value (getter)
GetValue(rec) ==
    IF ~rec.hasvalue
    THEN [exc |-> "ConfigPropertyValueNotSet", ret |-> NoneV]
    ELSE [exc |-> "None", ret |-> rec.value]

\* the hook attributes of an object that has none: a ConfigPropertyRecord,
\* or the copy of one
NOATTR == "absent"

\* ConfigPropertyRecord(name, **kwargs): the name is not validated
ConfigPropertyRecord(name, hasvalue, value) ==
    [cls |-> "ConfigPropertyRecord",
     obj |-> NewRecord(name, hasvalue, value, NOATTR, NOATTR)]

\* a slip the constructor could have: the initial value goes through the
\* value setter
ExtNew_assigning(name, defn) ==
    IF defn.hasvalue
    THEN [rec |-> [cls |-> "ConfigPropertyRecordExt",
                   obj |-> SetValue(NewRecord(name, FALSE, NoneV,
                                              defn.validate, defn.callback),
                                    defn.value).rec],
          exc |-> SetValue(NewRecord(name, FALSE, NoneV, defn.validate,
                                     defn.callback), defn.value).exc,
          events |-> SetValue(NewRecord(name, FALSE, NoneV, defn.validate,
                                        defn.callback), defn.value).events]
    ELSE [rec |-> [cls |-> "ConfigPropertyRecordExt",
                   obj |-> RecordFromDefn(name, defn)],
          exc |-> "None", events |-> <<>>]

\* ConfigPropertyRecordExt(name, **kwargs) with name a string; events
\* lists the hooks the constructor ran
ExtNew(name, defn) ==
    [rec |-> [cls |-> "ConfigPropertyRecordExt",
              obj |-> RecordFromDefn(name, defn)],
     exc |-> "None", events |-> <<>>]

\* ConfigPropertyRecordExt(rec) with rec a record: the copy constructor
\* takes the __dict__ of rec as it is
ExtCopy(src) ==
    [rec |-> [cls |-> "ConfigPropertyRecordExt", obj |-> src.obj],
     exc |-> "None", events |-> <<>>]

\* rec.name = name
NameSetter(rec, name) ==
    IF name = rec.obj.name THEN [rec |-> rec, exc |-> "None"]
    ELSE IF ispropertynamevalid(name)
    THEN [rec |-> [rec EXCEPT !.obj.name = name], exc |-> "None"]
    ELSE [rec |-> rec, exc |-> "ConfigPropertyBadName"]

\* the setter of ConfigPropertyRecordExt on an object: self.validate is
\* read first
ExtValueSetter(obj, value) ==
    IF obj.validate = NOATTR
    THEN [rec |-> obj, exc |-> "AttributeError", events |-> <<>>]
    ELSE SetValue(obj, value)

\* the setter of ConfigPropertyRecord on an object
PlainValueSetter(obj, value) ==
    [rec |-> StoreValue(obj, value), exc |-> "None",
     events |-> <<[ev |-> "store", name |-> obj.name, value |-> value]>>]

\* rec.value = value, by the class of rec
ValueSetter(rec, value) ==
    IF rec.cls = "ConfigPropertyRecordExt"
    THEN ExtValueSetter(rec.obj, value)
    ELSE PlainValueSetter(rec.obj, value)

(***************************************************************************)
(* ConfigNamespace.  A namespace object is its __dict__: the attribute     *)
(* "name" and the property records live in the same mapping.               *)
(***************************************************************************)
NAME_KEY == <<"n", "a", "m", "e">>

\* the entry self.name = nspc of a namespace's __dict__
AttrEntry(nspc) ==
    [kind |-> "attr", name |-> <<>>, value |-> StrV(nspc), hasvalue |-> TRUE,
     validate |-> "None", callback |-> "None"]

\* dict.update: d with the keys of e added or replaced
Update(d, e) ==
    [k \in DOMAIN d \cup DOMAIN e |-> IF k \in DOMAIN e THEN e[k] ELSE d[k]]

\* the mapping {name: entry}
Single(name, entry) == [k \in {name} |-> entry]

\* the empty mapping {}
EmptyMap == [k \in {} |-> NoneV]

\* ConfigNamespace.has_property(name)
has_property(ns, name) ==
    IF ~ispropertynamevalid(name)
    THEN [exc |-> "ConfigPropertyBadName", ret |-> FALSE]
    ELSE [exc |-> "None", ret |-> name \in DOMAIN ns]

\* ConfigNamespace.add_property(name, **kwargs)
add_property(ns, name, defn) ==
    IF ~ispropertynamevalid(name)
    THEN [ns |-> ns, exc |-> "ConfigPropertyBadName"]
    ELSE IF name \in DOMAIN ns
    THEN [ns |-> ns, exc |-> "ConfigNamespaceDuplicateProperty"]
    ELSE [ns |-> Update(ns, Single(name, RecordFromDefn(name, defn))),
          exc |-> "None"]

\* the loop of add_properties from item i on: props is the local dict built
\* so far, the namespace itself is only read
RECURSIVE BuildProps(_, _, _, _)
BuildProps(ns, batch, i, props) ==
    IF i > Len(batch) THEN [exc |-> "None", props |-> props]
    ELSE LET name == batch[i][1]
             defn == batch[i][2]
         IN  IF ~ispropertynamevalid(name)
             THEN [exc |-> "ConfigPropertyBadName", props |-> props]
             ELSE IF name \in DOMAIN ns
             THEN [exc |-> "ConfigNamespaceDuplicateProperty",
                   props |-> props]
             ELSE BuildProps(ns, batch, i + 1,
                             Update(props,
                                    Single(name, RecordFromDefn(name, defn))))

\* a slip add_properties could have: each record is stored as soon as built
RECURSIVE EagerProps(_, _, _)
EagerProps(ns, batch, i) ==
    IF i > Len(batch) THEN [ns |-> ns, exc |-> "None", ret |-> {}]
    ELSE LET one == add_property(ns, batch[i][1], batch[i][2])
         IN  IF one.exc # "None"
             THEN [ns |-> one.ns, exc |-> one.exc, ret |-> {}]
             ELSE LET rest == EagerProps(one.ns, batch, i + 1)
                  IN  [ns |-> rest.ns, exc |-> rest.exc,
                       ret |-> IF rest.exc = "None"
                               THEN rest.ret \cup {batch[i][1]} ELSE {}]

add_properties_eager(ns, batch) == EagerProps(ns, batch, 1)

\* the end of add_properties: the records built are stored in one update
StoreProps(ns, built) ==
    IF built.exc # "None"
    THEN [ns |-> ns, exc |-> built.exc, ret |-> {}]
    ELSE [ns |-> Update(ns, built.props), exc |-> "None",
          ret |-> DOMAIN built.props]

\* ConfigNamespace.add_properties(**kwargs): batch is the ordered mapping
\* `properties` as a sequence of <<name, defn>>; ret is the set of keys of
\* the returned mapping
add_properties(ns, batch) ==
    StoreProps(ns, BuildProps(ns, batch, 1, EmptyMap))

\* the object a constructor leaves once add_properties has returned
Constructed(added) == [ns |-> added.ns, exc |-> added.exc]

\* ConfigNamespace(nspc, **kwargs)
ConfigNamespace(nspc, batch) ==
    IF ~isnsnamevalid(nspc)
    THEN [ns |-> EmptyMap, exc |-> "ConfigNamespaceBadName"]
    ELSE IF batch # <<>>
    THEN Constructed(add_properties(Single(NAME_KEY, AttrEntry(nspc)), batch))
    ELSE [ns |-> Single(NAME_KEY, AttrEntry(nspc)), exc |-> "None"]

\* the attribute ns.name
NsName(ns) == ns[NAME_KEY].value.s

(***************************************************************************)
(* ConfigurationManager.  A manager is [isset, version, namespaces]; the   *)
(* module global set to None is NoManager.  A namespace object is named by *)
(* the key it is stored under: namespaces are never removed or replaced.   *)
(***************************************************************************)
NoManager == [isset |-> FALSE, version |-> 0, namespaces |-> EmptyMap]

\* the loop of ConfigurationManager.__init__ over the given namespaces:
\* BuildNamespaces is the loop from item i on, KeepNamespace its body once
\* the factory has returned made
RECURSIVE BuildNamespaces(_, _, _)
RECURSIVE KeepNamespace(_, _, _, _)
KeepNamespace(fields, i, nspc, made) ==
    IF made.exc # "None"
    THEN [exc |-> made.exc, nspc |-> nspc]
    ELSE BuildNamespaces(fields, i + 1,
                         Update(nspc, Single(fields[i][1], made.ns)))

BuildNamespaces(fields, i, nspc) ==
    IF i > Len(fields) THEN [exc |-> "None", nspc |-> nspc]
    ELSE KeepNamespace(fields, i, nspc,
                       ConfigNamespace(fields[i][1], fields[i][2]))

\* a slip __init__ could have: the namespaces are stored as given
WithDefault_asgiven(version, built) ==
    IF built.exc # "None"
    THEN [mgr |-> NoManager, exc |-> built.exc]
    ELSE [mgr |-> [isset |-> TRUE, version |-> version,
                   namespaces |-> built.nspc],
          exc |-> "None"]

\* the end of ConfigurationManager.__init__: the default namespace is added
\* when the given ones do not include it
WithDefault(version, built) ==
    IF built.exc # "None"
    THEN [mgr |-> NoManager, exc |-> built.exc]
    ELSE [mgr |-> [isset |-> TRUE, version |-> version,
                   namespaces |->
                       IF DEFAULT_NS \notin DOMAIN built.nspc
                       THEN Update(built.nspc,
                                   Single(DEFAULT_NS,
                                          Single(NAME_KEY,
                                                 AttrEntry(DEFAULT_NS))))
                       ELSE built.nspc],
          exc |-> "None"]

\* ConfigurationManager(version, **kwargs)
ConfigurationManager(version, fields) ==
    IF version \notin {1}
    THEN [mgr |-> NoManager, exc |-> "ConfigManagerBadVersion"]
    ELSE WithDefault(version, BuildNamespaces(fields, 1, EmptyMap))

\* a slip _parents could have: every name of the chain is listed, whether
\* or not the manager holds it
RECURSIVE _parents_unfiltered(_, _)
_parents_unfiltered(mgr, nspc) ==
    <<nspc>>
    \o (IF RFind(nspc, NS_SEP) > 0
        THEN _parents_unfiltered(mgr, SubSeq(nspc, 1,
                                             RFind(nspc, NS_SEP) - 1))
        ELSE <<>>)

\* ConfigurationManager._parents(nspc)
RECURSIVE _parents(_, _)
_parents(mgr, nspc) ==
    (IF nspc \in DOMAIN mgr.namespaces THEN <<nspc>> ELSE <<>>)
    \o (IF RFind(nspc, NS_SEP) > 0
        THEN _parents(mgr, SubSeq(nspc, 1, RFind(nspc, NS_SEP) - 1))
        ELSE <<>>)

\* ConfigurationManager.parent_namespaces(nspc)
parent_namespaces(mgr, nspc) == _parents(mgr, nspc) \o <<DEFAULT_NS>>

\* ConfigurationManager.has_namespace(nspc)
has_namespace(mgr, nspc) ==
    IF ~isnsnamevalid(nspc)
    THEN [exc |-> "ConfigNamespaceBadName", ret |-> FALSE]
    ELSE [exc |-> "None", ret |-> nspc \in DOMAIN mgr.namespaces]

\* the end of add_namespace: the namespace the factory made is stored
StoreNamespace(mgr, nspc, made) ==
    IF made.exc # "None"
    THEN [mgr |-> mgr, exc |-> made.exc, ret |-> <<>>]
    ELSE [mgr |-> [mgr EXCEPT !.namespaces = Update(@, Single(nspc, made.ns))],
          exc |-> "None", ret |-> nspc]

\* a slip add_namespace could have: a registered name is not refused and
\* its namespace is replaced
add_namespace_replace(mgr, nspc, batch) ==
    IF ~isnsnamevalid(nspc)
    THEN [mgr |-> mgr, exc |-> "ConfigNamespaceBadName", ret |-> <<>>]
    ELSE StoreNamespace(mgr, nspc, ConfigNamespace(nspc, batch))

\* ConfigurationManager.add_namespace(nspc, **kwargs); ret is the key of the
\* namespace returned
add_namespace(mgr, nspc, batch) ==
    IF ~isnsnamevalid(nspc)
    THEN [mgr |-> mgr, exc |-> "ConfigNamespaceBadName", ret |-> <<>>]
    ELSE IF nspc \in DOMAIN mgr.namespaces
    THEN [mgr |-> mgr, exc |-> "ConfigManagerDuplicateNamespace",
          ret |-> <<>>]
    ELSE StoreNamespace(mgr, nspc, ConfigNamespace(nspc, batch))

\* the last element of a non-empty list
Last(chain) == chain[Len(chain)]

\* a slip get_namespace could have: the farthest ancestor, not the nearest
get_namespace_farthest(mgr, nspc, ornearest) ==
    IF ~isnsnamevalid(nspc)
    THEN [exc |-> "ConfigNamespaceBadName", ret |-> <<>>]
    ELSE IF nspc \in DOMAIN mgr.namespaces
    THEN [exc |-> "None", ret |-> nspc]
    ELSE IF ornearest
    THEN [exc |-> "None", ret |-> Last(parent_namespaces(mgr, nspc))]
    ELSE [exc |-> "ConfigManagerMissingNamespace", ret |-> <<>>]

\* a slip get_namespace could have: ornearest is not honoured
get_namespace_exact(mgr, nspc, ornearest) ==
    IF ~isnsnamevalid(nspc)
    THEN [exc |-> "ConfigNamespaceBadName", ret |-> <<>>]
    ELSE IF nspc \in DOMAIN mgr.namespaces
    THEN [exc |-> "None", ret |-> nspc]
    ELSE [exc |-> "ConfigManagerMissingNamespace", ret |-> <<>>]

\* ConfigurationManager.get_namespace(nspc, ornearest); ret is the key of
\* the namespace returned
get_namespace(mgr, nspc, ornearest) ==
    IF ~isnsnamevalid(nspc)
    THEN [exc |-> "ConfigNamespaceBadName", ret |-> <<>>]
    ELSE IF nspc \in DOMAIN mgr.namespaces
    THEN [exc |-> "None", ret |-> nspc]
    ELSE IF ornearest
    THEN [exc |-> "None", ret |-> parent_namespaces(mgr, nspc)[1]]
    ELSE [exc |-> "ConfigManagerMissingNamespace", ret |-> <<>>]

(***************************************************************************)
(* The singleton accessors.  cm is the value of the module global          *)
(* configuration_manager when the call starts; caller is the __name__ of   *)
(* the calling module, which inspect finds when no namespace is named.     *)
(***************************************************************************)
\* the assignment configuration_manager = configuration_manager_factory(...)
Instantiated(made) == [cm |-> made.mgr, exc |-> made.exc]

\* a slip getConfigManager could have: every call builds a manager
getConfigManager_rebuild(cm, fields) ==
    Instantiated(ConfigurationManager(1, fields))

\* getConfigManager(**kwargs)
getConfigManager(cm, fields) ==
    IF ~cm.isset
    THEN Instantiated(ConfigurationManager(1, fields))
    ELSE [cm |-> cm, exc |-> "None"]

\* the outcome of getConfig as an outcome of one manager call
Got(mgr, got) == [cm |-> mgr, exc |-> got.exc, ret |-> got.ret]

\* getConfig on an existing namespace, once rtn.add_properties has returned
Merged(mgr, key, added) ==
    [cm |-> [mgr EXCEPT !.namespaces[key] = added.ns],
     exc |-> added.exc,
     ret |-> IF added.exc = "None" THEN key ELSE <<>>]

\* getConfig on a new namespace, once mgr.add_namespace has returned
Created(made) == [cm |-> made.mgr, exc |-> made.exc, ret |-> made.ret]

\* a slip getConfig could have: a named namespace that is not registered
\* is looked up by nearest ancestor and nothing is created
getConfigWith_nearest(mgr, nspc, ornearest, kwargs, caller) ==
    Got(mgr, get_namespace(mgr, IF nspc # <<>> THEN nspc ELSE caller,
                           ornearest))

\* getConfig after mgr = getConfigManager(); an nspc of None or '' is <<>>;
\* ret is the key of the namespace returned
getConfigWith(mgr, nspc, ornearest, kwargs, caller) ==
    IF nspc # <<>>
    THEN IF has_namespace(mgr, nspc).exc # "None"
         THEN [cm |-> mgr, exc |-> has_namespace(mgr, nspc).exc,
               ret |-> <<>>]
         ELSE IF has_namespace(mgr, nspc).ret
         THEN IF kwargs # <<>>
              THEN Merged(mgr, get_namespace(mgr, nspc, TRUE).ret,
                          add_properties(
                              mgr.namespaces[get_namespace(mgr, nspc,
                                                           TRUE).ret],
                              kwargs))
              ELSE Got(mgr, get_namespace(mgr, nspc, TRUE))
         ELSE Created(add_namespace(mgr, nspc, kwargs))
    ELSE Got(mgr, get_namespace(mgr, caller, ornearest))

\* getConfig(nspc, ornearest, **kwargs)
getConfig(cm, nspc, ornearest, kwargs, caller) ==
    getConfigWith(getConfigManager(cm, <<>>).cm, nspc, ornearest, kwargs,
                  caller)

\* the value getConfigRecord returns: getattr(ns, propname)
Found(cm, nskey, propname) ==
    [cm |-> cm, exc |-> "None",
     ret |-> [ns |-> nskey, prop |-> propname,
              entry |-> cm.namespaces[nskey][propname]]]

NotFoundRet == [ns |-> <<>>, prop |-> <<>>, entry |-> AttrEntry(<<>>)]

\* the loop of getConfigRecord over parent_namespaces(nspc): SearchParents
\* is the loop from item i on, SearchIn its body once getConfig(nss, False)
\* has returned nsp
RECURSIVE SearchParents(_, _, _, _)
RECURSIVE SearchIn(_, _, _, _)
SearchIn(nsp, chain, i, propname) ==
    IF nsp.exc # "None"
    THEN [cm |-> nsp.cm, exc |-> nsp.exc, ret |-> NotFoundRet]
    ELSE IF has_property(nsp.cm.namespaces[nsp.ret], propname).ret
    THEN Found(nsp.cm, nsp.ret, propname)
    ELSE SearchParents(nsp.cm, chain, i + 1, propname)

SearchParents(cm, chain, i, propname) ==
    IF i > Len(chain)
    THEN [cm |-> cm, exc |-> "ConfigPropertyNotFound", ret |-> NotFoundRet]
    ELSE SearchIn(getConfig(cm, chain[i], FALSE, <<>>, <<>>), chain, i,
                  propname)

\* getConfigRecord once ns = getConfig(nspc, ornearest) has returned
Lookup(ns, nspc, propname, ornearest) ==
    IF ns.exc # "None"
    THEN [cm |-> ns.cm, exc |-> ns.exc, ret |-> NotFoundRet]
    ELSE IF has_property(ns.cm.namespaces[ns.ret], propname).ret
    THEN Found(ns.cm, ns.ret, propname)
    ELSE IF ornearest
    THEN SearchParents(ns.cm, parent_namespaces(ns.cm, nspc), 1, propname)
    ELSE [cm |-> ns.cm, exc |-> "ConfigPropertyNotFound", ret |-> NotFoundRet]

\* getConfigRecord once fqname is split into nspc and propname
LookupNamed(cm, nspc, propname, ornearest) ==
    IF ~isnsnamevalid(nspc)
    THEN [cm |-> cm, exc |-> "ConfigNamespaceBadName", ret |-> NotFoundRet]
    ELSE IF ~ispropertynamevalid(propname)
    THEN [cm |-> cm, exc |-> "ConfigPropertyBadName", ret |-> NotFoundRet]
    ELSE Lookup(getConfig(cm, nspc, ornearest, <<>>, <<>>), nspc, propname,
                ornearest)

\* getConfigRecord(fqname, ornearest)
getConfigRecord(cm, fqname, ornearest, caller) ==
    IF fqname = <<>>
    THEN [cm |-> cm, exc |-> "ConfigPropertyBadName", ret |-> NotFoundRet]
    ELSE IF RFind(fqname, NS_SEP) > 0
    THEN LookupNamed(cm, SubSeq(fqname, 1, RFind(fqname, NS_SEP) - 1),
                     SubSeq(fqname, RFind(fqname, NS_SEP) + 1, Len(fqname)),
                     ornearest)
    ELSE LookupNamed(cm, caller, fqname, ornearest)

(***************************************************************************)
(* AppConfig.  The object is the record of its attributes; record is the   *)
(* reference getConfigRecord returned, the record itself stays in its      *)
(* namespace of the manager.  A function is named by a string, None by     *)
(* "None".  The format functions are those of the repository's tests.      *)
(***************************************************************************)
\* the value of a string of decimal digits
RECURSIVE DecimalValue(_)
DecimalValue(s) ==
    IF s = <<>> THEN 0
    ELSE 10 * DecimalValue(SubSeq(s, 1, Len(s) - 1))
         + (CHOOSE d \in 0..9 :
                <<"0", "1", "2", "3", "4", "5", "6", "7", "8", "9">>[d + 1]
                    = s[Len(s)])

\* reformat(name, value): 2 * value
reformat(name, value) ==
    IF value.t = "int" THEN [exc |-> "None", val |-> IntV(2 * value.n)]
    ELSE IF value.t = "str"
    THEN [exc |-> "None", val |-> StrV(value.s \o value.s)]
    ELSE [exc |-> "TypeError", val |-> NoneV]

\* reformatstr(name, value): int(value, 10), for the numerals without sign,
\* blank or underscore
reformatstr(name, value) ==
    IF value.t # "str" THEN [exc |-> "TypeError", val |-> NoneV]
    ELSE IF value.s = <<>> \/ \E i \in 1..Len(value.s) : value.s[i] \notin Digit
    THEN [exc |-> "ValueError", val |-> NoneV]
    ELSE [exc |-> "None", val |-> IntV(DecimalValue(value.s))]

\* the call fmt(name, value) of a format function
CallFormat(fmt, name, value) ==
    IF fmt = "reformat" THEN reformat(name, value)
    ELSE reformatstr(name, value)

\* if self.xformat and callable(self.xformat): val = self.xformat(name, val)
ApplyFormat(fmt, name, raw) ==
    IF fmt = "None" THEN [exc |-> "None", val |-> raw]
    ELSE CallFormat(fmt, name, raw)

\* os.environ, as test_appconfig05 leaves it
ENVVAR == "TEST_QRGSRYBPFJES"
ENVMISS == "TEST_UNSET"
ENVEMPTY == "TEST_EMPTY"
Environ == [k \in {ENVVAR} |-> <<"3">>] @@ [k \in {ENVEMPTY} |-> <<>>]

\* a configparser object: section s with the options k1 = 4 and k2 = 6
ParserOptions == [k \in {<<"s", "k1">>} |-> <<"4">>]
                 @@ [k \in {<<"s", "k2">>} |-> <<"6">>]
\* cfgparser.has_option(*keys)
has_option(keys) == keys \in DOMAIN ParserOptions
\* cfgparser.get(*keys)
get(keys) == StrV(ParserOptions[keys])

\* the dictionary {'first': {'second': {'foo': 3, 'nil': None}}}: each path
\* of keys that leads somewhere, with the value when it is not a dictionary
DictPaths ==
    [k \in {<<"first">>, <<"first", "second">>} |->
        [isdict |-> TRUE, value |-> NoneV]]
    @@ [k \in {<<"first", "second", "foo">>} |->
        [isdict |-> FALSE, value |-> IntV(3)]]
    @@ [k \in {<<"first", "second", "nil">>} |->
        [isdict |-> FALSE, value |-> NoneV]]

\* a dictionary, as a value
DictV(path) == [t |-> "dict", n |-> 0, s |-> path]

\* argalias: None, a value, or a callable returning the value
NoArg == [kind |-> "none", v |-> NoneV]
ArgValue(v) == [kind |-> "value", v |-> v]
ArgCall(v) == [kind |-> "callable", v |-> v]

\* the record an AppConfig refers to, and the manager with that record put
Deref(cm, ref) == cm.namespaces[ref.ns][ref.prop]
PutRecord(cm, ref, rec) ==
    [cm EXCEPT !.namespaces[ref.ns] = Update(@, Single(ref.prop, rec))]

\* no AppConfig object
NoAppConfig ==
    [isset |-> FALSE, record |-> [ns |-> <<>>, prop |-> <<>>],
     argalias |-> NoArg, argformat |-> "None",
     envalias |-> <<>>, envformat |-> "None",
     cfgparser |-> "None", cfgalias |-> <<>>, cfgformat |-> "None",
     dictconfig |-> "None", dictalias |-> <<>>, dictformat |-> "None",
     default_value |-> NoneV, has_default |-> FALSE]

\* the keyword arguments of the constructor that are not given
NoKwargs ==
    [argalias |-> NoArg, argformat |-> "None",
     envalias |-> <<>>, envformat |-> "None",
     cfgparser |-> "None", cfgalias |-> <<>>, cfgformat |-> "None",
     dictconfig |-> "None", dictalias |-> <<>>, dictformat |-> "None",
     default_value |-> NoneV, has_default |-> FALSE]

\* AppConfig.__init__ once getConfigRecord has returned: an argument not
\* given is None or [], so kw holds every attribute
Configured(found, kw) ==
    [cm |-> found.cm, exc |-> found.exc,
     ac |-> [isset |-> found.exc = "None",
             record |-> [ns |-> found.ret.ns, prop |-> found.ret.prop],
             argalias |-> kw.argalias, argformat |-> kw.argformat,
             envalias |-> kw.envalias, envformat |-> kw.envformat,
             cfgparser |-> kw.cfgparser, cfgalias |-> kw.cfgalias,
             cfgformat |-> kw.cfgformat,
             dictconfig |-> kw.dictconfig, dictalias |-> kw.dictalias,
             dictformat |-> kw.dictformat,
             default_value |-> kw.default_value,
             has_default |-> kw.has_default]]

\* AppConfig(fqname, ornearest, **kwargs)
AppConfig(cm, fqname, ornearest, kw, caller) ==
    Configured(getConfigRecord(cm, fqname, ornearest, caller), kw)

\* AppConfig.set_argalias
set_argalias(ac, argalias, argformat) ==
    [ac EXCEPT !.argalias = argalias, !.argformat = argformat]

\* AppConfig.set_envalias
set_envalias(ac, envalias, envformat) ==
    [ac EXCEPT !.envalias = envalias, !.envformat = envformat]

\* AppConfig.set_cfgalias: self.cfgparser is assigned twice, the second
\* time with cfgformat
set_cfgalias(ac, cfgparser, cfgalias, cfgformat) ==
    [[ac EXCEPT !.cfgparser = cfgparser, !.cfgalias = cfgalias]
        EXCEPT !.cfgparser = cfgformat]

\* AppConfig.set_dictalias: dictformat goes to an attribute dictparser,
\* which nothing reads; the attribute dictformat stays as it was
set_dictalias(ac, dictconfig, dictalias, dictformat) ==
    [ac EXCEPT !.dictconfig = dictconfig, !.dictalias = dictalias]

\* a source that does not yield
NoYield(cm) == [cm |-> cm, exc |-> "None", rtn |-> FALSE, writes |-> <<>>]
\* a source that raises before it assigns
Raised(cm, exc) == [cm |-> cm, exc |-> exc, rtn |-> FALSE, writes |-> <<>>]

\* a slip the sources could have: an exception of the setter is caught and
\* the source reports that it found nothing
Wrote_swallowing(cm, ref, src, raw, val, set) ==
    [cm |-> PutRecord(cm, ref, set.rec), exc |-> "None",
     rtn |-> set.exc = "None",
     writes |-> <<[src |-> src, raw |-> raw, val |-> val]>>]

\* self.record.value = val, once the setter of the record has returned;
\* writes notes the assignment: its source, raw value and assigned value
Wrote(cm, ref, src, raw, val, set) ==
    [cm |-> PutRecord(cm, ref, set.rec), exc |-> set.exc,
     rtn |-> set.exc = "None",
     writes |-> <<[src |-> src, raw |-> raw, val |-> val]>>]

\* the end of a source that has found raw: format it, assign it
SetFrom(cm, ref, src, raw, formatted) ==
    IF formatted.exc # "None" THEN Raised(cm, formatted.exc)
    ELSE Wrote(cm, ref, src, raw, formatted.val,
               SetValue(Deref(cm, ref), formatted.val))

\* AppConfig._argalias
_argalias(ac, cm) ==
    IF ac.argalias.kind # "none"
    THEN SetFrom(cm, ac.record, "arg", ac.argalias.v,
                 ApplyFormat(ac.argformat, Deref(cm, ac.record).name,
                             ac.argalias.v))
    ELSE NoYield(cm)

\* the first (1-based) index of seq whose item is in S, 0 when none is
FirstIn(seq, S) ==
    IF \E i \in 1..Len(seq) : seq[i] \in S
    THEN CHOOSE i \in 1..Len(seq) :
            /\ seq[i] \in S
            /\ \A j \in 1..(i - 1) : seq[j] \notin S
    ELSE 0

\* the body of the loop of _envalias for the alias found in os.environ
EnvFound(ac, cm, envalias) ==
    SetFrom(cm, ac.record, "env", StrV(Environ[envalias]),
            ApplyFormat(ac.envformat, Deref(cm, ac.record).name,
                        StrV(Environ[envalias])))

\* a slip _envalias could have: an alias set to the empty string is passed
\* over, as `if os.getenv(envalias):` does
_envalias_nonempty(ac, cm) ==
    IF FirstIn(ac.envalias, {k \in DOMAIN Environ : Environ[k] # <<>>}) # 0
    THEN EnvFound(ac, cm,
                  ac.envalias[FirstIn(ac.envalias,
                      {k \in DOMAIN Environ : Environ[k] # <<>>})])
    ELSE NoYield(cm)

\* AppConfig._envalias
_envalias(ac, cm) ==
    IF FirstIn(ac.envalias, DOMAIN Environ) # 0
    THEN EnvFound(ac, cm, ac.envalias[FirstIn(ac.envalias, DOMAIN Environ)])
    ELSE NoYield(cm)

\* the body of the loop of _cfgalias for the keys the parser has
CfgFound(ac, cm, keys) ==
    SetFrom(cm, ac.record, "cfg", get(keys),
            ApplyFormat(ac.cfgformat, Deref(cm, ac.record).name, get(keys)))

\* AppConfig._cfgalias: an object that is no parser has no has_option
_cfgalias(ac, cm) ==
    IF ac.cfgparser = "None" THEN NoYield(cm)
    ELSE IF ac.cfgalias = <<>> THEN NoYield(cm)
    ELSE IF ac.cfgparser # "parser" THEN Raised(cm, "AttributeError")
    ELSE IF FirstIn(ac.cfgalias, DOMAIN ParserOptions) # 0
    THEN CfgFound(ac, cm,
                  ac.cfgalias[FirstIn(ac.cfgalias, DOMAIN ParserOptions)])
    ELSE NoYield(cm)

\* AppConfig._getdictentry(*keys): the walk from key i on, path being the
\* keys walked so far.  Only KeyError is caught.
RECURSIVE _getdictentry(_, _, _)
_getdictentry(keys, i, path) ==
    IF i > Len(keys)
    THEN [exc |-> "None", got |-> TRUE,
          value |-> IF path = <<>> \/ DictPaths[path].isdict
                    THEN DictV(path) ELSE DictPaths[path].value]
    ELSE IF path # <<>> /\ ~DictPaths[path].isdict
    THEN [exc |-> "TypeError", got |-> FALSE, value |-> NoneV]
    ELSE IF Append(path, keys[i]) \notin DOMAIN DictPaths
    THEN [exc |-> "None", got |-> FALSE, value |-> NoneV]
    ELSE _getdictentry(keys, i + 1, Append(path, keys[i]))

\* the loop of _dictalias from alias i on: DictLoop looks alias i up,
\* DictTried is the rest of the body once _getdictentry has returned
RECURSIVE DictLoop(_, _, _)
RECURSIVE DictTried(_, _, _, _)
DictTried(ac, cm, i, dictopt) ==
    IF dictopt.exc # "None" THEN Raised(cm, dictopt.exc)
    ELSE IF dictopt.got
    THEN SetFrom(cm, ac.record, "dict", dictopt.value,
                 ApplyFormat(ac.dictformat, Deref(cm, ac.record).name,
                             dictopt.value))
    ELSE DictLoop(ac, cm, i + 1)

DictLoop(ac, cm, i) ==
    IF i > Len(ac.dictalias) THEN NoYield(cm)
    ELSE DictTried(ac, cm, i,
                   _getdictentry(IF ac.dictalias[i].islist
                                 THEN ac.dictalias[i].keys
                                 ELSE <<ac.dictalias[i].keys>>, 1, <<>>))

\* AppConfig._dictalias
_dictalias(ac, cm) ==
    IF ac.dictconfig # "None" THEN DictLoop(ac, cm, 1) ELSE NoYield(cm)

\* a slip _default could have: a default of None counts as not given
_default_notnone(ac, cm) ==
    IF ac.has_default /\ ac.default_value # NoneV
    THEN SetFrom(cm, ac.record, "default", ac.default_value,
                 [exc |-> "None", val |-> ac.default_value])
    ELSE NoYield(cm)

\* _default without its test of has_default
_default_always(ac, cm) ==
    SetFrom(cm, ac.record, "default", ac.default_value,
            [exc |-> "None", val |-> ac.default_value])

\* AppConfig._default
_default(ac, cm) ==
    IF ac.has_default
    THEN SetFrom(cm, ac.record, "default", ac.default_value,
                 [exc |-> "None", val |-> ac.default_value])
    ELSE NoYield(cm)

\* the sources in the order resolve lists them
Sources == <<"arg", "env", "cfg", "dict", "default">>

\* res() for the source called src
Probe(src, ac, cm) ==
    IF src = "arg" THEN _argalias(ac, cm)
    ELSE IF src = "env" THEN _envalias(ac, cm)
    ELSE IF src = "cfg" THEN _cfgalias(ac, cm)
    ELSE IF src = "dict" THEN _dictalias(ac, cm)
    ELSE _default(ac, cm)

\* a slip resolve could have: an unset value is returned as None
Resolved_quiet(cm, ref, writes, got) ==
    [cm |-> cm, exc |-> "None", ret |-> got.ret, writes |-> writes]

\* return self.record.value
Resolved(cm, ref, writes, got) ==
    [cm |-> cm, exc |-> got.exc, ret |-> got.ret, writes |-> writes]

\* the loop of resolve from source i of order on: ResolveFrom calls the
\* source, Probed is `if res(): break` once it has returned
RECURSIVE ResolveFrom(_, _, _, _, _)
RECURSIVE Probed(_, _, _, _, _)
Probed(order, ac, i, writes, out) ==
    IF out.exc # "None"
    THEN [cm |-> out.cm, exc |-> out.exc, ret |-> NoneV,
          writes |-> writes \o out.writes]
    ELSE IF out.rtn
    THEN Resolved(out.cm, ac.record, writes \o out.writes,
                  GetValue(Deref(out.cm, ac.record)))
    ELSE ResolveFrom(order, ac, out.cm, i + 1, writes \o out.writes)

ResolveFrom(order, ac, cm, i, writes) ==
    IF i > Len(order)
    THEN Resolved(cm, ac.record, writes, GetValue(Deref(cm, ac.record)))
    ELSE Probed(order, ac, i, writes, Probe(order[i], ac, cm))

\* AppConfig.resolve()
resolve(ac, cm) == ResolveFrom(Sources, ac, cm, 1, <<>>)

\* AppConfig.value = val
SetAppValue(ac, cm, val) ==
    Wrote(cm, ac.record, "value", val, val,
          SetValue(Deref(cm, ac.record), val))

(***************************************************************************)
(* Inputs of the calls.                                                    *)
(***************************************************************************)
A == <<"a">>
AB == <<"a", ".", "b">>
ABC == <<"a", ".", "b", ".", "c">>
AX == <<"a", ".", "x">>
BADNS == <<"a", ".", ".", "b">>
MAIN == <<"_", "_", "m", "a", "i", "n", "_", "_">>
FOO == <<"f", "o", "o">>
BAR == <<"b", "a", "r">>
BADNAME == <<"!", "b", "a", "d", "n", "a", "m", "e">>

\* namespace names a caller passes; <<>> stands for None and ''
NsInputs == {A, AB, ABC, AX, DEFAULT_NS, BADNS, <<>>}
\* the __name__ of the calling module
Callers == {ABC, MAIN}
\* property names a caller passes
PropInputs == {FOO, NAME_KEY, BADNAME}

\* s1 + '.' + s2
Dotted(s1, s2) == s1 \o <<NS_SEP>> \o s2

\* fully qualified names a caller passes to getConfigRecord
FqInputs ==
    {Dotted(n, q) : n \in NsInputs, q \in PropInputs} \cup {FOO, <<>>}

\* the definition a batch gives for a name, as in the tests:
\* foo={'value': 5}, every other name a bare 7
DefnFor(name) ==
    IF name = FOO THEN DictDefn(TRUE, IntV(5), "None", "None")
    ELSE BareDefn(IntV(7))

\* the ordered mappings of at most n of the entries <<name, defn>> of P, no
\* name twice: what a caller writes as keyword arguments or as properties=
RECURSIVE Batches(_, _)
Batches(P, n) ==
    IF n = 0 THEN {<<>>}
    ELSE LET shorter == Batches(P, n - 1)
             longest == {c \in shorter : Len(c) = n - 1}
         IN  shorter \cup
             {Append(x[1], x[2]) :
                x \in {y \in longest \X P :
                         \A i \in 1..Len(y[1]) : y[1][i][1] # y[2][1]}}

\* the batches over the names in S, each with the definition the tests give
BatchesOver(S, n) == Batches({<<name, DefnFor(name)>> : name \in S}, n)

\* the batches a caller passes to getConfig and add_namespace
Kwargs == BatchesOver(PropInputs, MaxBatch)

\* the values of the variables a specification does not use
IdleManager == NoManager
IdleNamespace == EmptyMap
IdleRecord == NewRecord(<<>>, FALSE, NoneV, "None", "None")
IdleAppcfg == NoAppConfig

\* the threads of the process, and a thread outside the accessors: mgr is
\* its local of getConfig, made the registry it constructed, both indices of
\* heap with 0 for none; saw tells that it found the global unset
Threads == {"t1", "t2"}
NOLOCK == "none"
FREE == "free"
IdleThread == [pc |-> "idle", op |-> "None", nspc |-> <<>>, mgr |-> 0,
               made |-> 0, saw |-> FALSE, calls |-> 0]
IdleThreads == [t \in Threads |-> IdleThread]

\* No call is in progress and the outcome of the last one has been dropped:
\* the program is single-threaded, a call returns before the next is made.
NoCall == [op |-> "none", exc |-> "None"]
Ready == last = NoCall

\* the caller drops the outcome of the call it made
Forget ==
    /\ last # NoCall
    /\ last' = NoCall
    /\ UNCHANGED <<configuration_manager, namespace, record, appcfg,
                 threads, heap, lock>>

(***************************************************************************)
(* SpecRegistry: the singleton manager and the calls made on it.           *)
(***************************************************************************)
InitRegistry ==
    /\ configuration_manager = NoManager
    /\ namespace = IdleNamespace
    /\ record = IdleRecord
    /\ appcfg = IdleAppcfg
    /\ last = NoCall
    /\ threads = IdleThreads
    /\ heap = <<>>
    /\ lock = NOLOCK

\* a call on the singleton returns: out is its outcome, args its inputs and
\* pre the module global when it was made
ManagerCall(op, args, out) ==
    /\ Ready
    /\ configuration_manager' = out.cm
    /\ last' = [op |-> op, args |-> args, exc |-> out.exc, ret |-> out.ret,
                pre |-> configuration_manager]
    /\ UNCHANGED <<namespace, record, appcfg,
                 threads, heap, lock>>

\* a call that only reads the manager returns
ManagerQuery(op, args, out) ==
    /\ Ready
    /\ configuration_manager.isset
    /\ last' = [op |-> op, args |-> args, exc |-> out.exc, ret |-> out.ret,
                pre |-> configuration_manager]
    /\ UNCHANGED <<configuration_manager, namespace, record, appcfg,
                 threads, heap, lock>>

\* configuration.configuration_manager = None, as every test starts
ResetManager ==
    /\ Ready
    /\ configuration_manager.isset
    /\ configuration_manager' = NoManager
    /\ last' = [op |-> "reset", exc |-> "None"]
    /\ UNCHANGED <<namespace, record, appcfg,
                 threads, heap, lock>>

\* the namespaces a caller passes to getConfigManager: none,
\* a={'foo': {'value': 5}}, namespaces={'__DEFAULT': {'foo': {'value': 5}}}
\* and namespaces={'a..b': {}}
ManagerFields ==
    {<<>>,
     <<<<A, <<<<FOO, DefnFor(FOO)>>>>>>>>,
     <<<<DEFAULT_NS, <<<<FOO, DefnFor(FOO)>>>>>>>>,
     <<<<BADNS, <<>>>>>>}

\* getConfigManager returns the module global, or raises and leaves it
Returned(made) == [cm |-> made.cm, exc |-> made.exc, ret |-> <<>>]

GetConfigManager(fields) ==
    ManagerCall("getConfigManager", [fields |-> fields],
                Returned(getConfigManager(configuration_manager, fields)))

GetConfig(nspc, ornearest, kwargs, caller) ==
    ManagerCall("getConfig",
                [nspc |-> nspc, ornearest |-> ornearest, kwargs |-> kwargs,
                 caller |-> caller],
                getConfig(configuration_manager, nspc, ornearest, kwargs,
                          caller))

GetConfigRecord(fqname, ornearest, caller) ==
    ManagerCall("getConfigRecord",
                [fqname |-> fqname, ornearest |-> ornearest,
                 caller |-> caller],
                getConfigRecord(configuration_manager, fqname, ornearest,
                                caller))

ParentNamespaces(nspc) ==
    ManagerQuery("parent_namespaces", [nspc |-> nspc],
                 [exc |-> "None",
                  ret |-> parent_namespaces(configuration_manager, nspc)])

HasNamespace(nspc) ==
    ManagerQuery("has_namespace", [nspc |-> nspc],
                 has_namespace(configuration_manager, nspc))

AddNamespace(nspc, kwargs) ==
    /\ configuration_manager.isset
    /\ ManagerCall("add_namespace", [nspc |-> nspc, kwargs |-> kwargs],
                   Created(add_namespace(configuration_manager, nspc,
                                         kwargs)))

GetNamespace(nspc, ornearest) ==
    ManagerQuery("get_namespace", [nspc |-> nspc, ornearest |-> ornearest],
                 get_namespace(configuration_manager, nspc, ornearest))

NextRegistry ==
    \/ Forget
    \/ ResetManager
    \/ \E fields \in ManagerFields : GetConfigManager(fields)
    \/ \E nspc \in NsInputs \ {<<>>}, ornearest \in BOOLEAN,
          kwargs \in Kwargs :
          GetConfig(nspc, ornearest, kwargs, MAIN)
    \/ \E ornearest \in BOOLEAN, caller \in Callers :
          GetConfig(<<>>, ornearest, <<>>, caller)
    \/ \E fqname \in FqInputs, ornearest \in BOOLEAN, caller \in Callers :
          GetConfigRecord(fqname, ornearest, caller)
    \/ \E nspc \in NsInputs : ParentNamespaces(nspc)
    \/ \E nspc \in NsInputs : HasNamespace(nspc)
    \/ \E nspc \in NsInputs, kwargs \in Kwargs : AddNamespace(nspc, kwargs)
    \/ \E nspc \in NsInputs, ornearest \in BOOLEAN :
          GetNamespace(nspc, ornearest)

SpecRegistry == InitRegistry /\ [][NextRegistry]_vars

(***************************************************************************)
(* SpecNamespace: one ConfigNamespace object and the calls made on it and  *)
(* on the records it holds.                                                *)
(***************************************************************************)
\* the definitions a caller gives for a property: bar=7,
\* foo={'value': 5, 'validate': tstvalidate, 'callback': tstcallback},
\* foo={'validate': tstvalidate}
DefnInputs ==
    {BareDefn(IntV(7)),
     DictDefn(TRUE, IntV(5), "tstvalidate", "tstcallback"),
     DictDefn(FALSE, NoneV, "tstvalidate", "None")}

\* 'foo' followed by a newline
FOONL == <<"f", "o", "o", "\n">>

\* the names of a batch of properties
BatchNames == {FOO, BAR, BADNAME}

\* the batches a caller passes to add_properties
PropertyBatches ==
    Batches({<<name, defn>> : name \in BatchNames, defn \in DefnInputs},
            MaxBatch)

\* the values a caller assigns to a record: 3, -1 and "foo"
ValueInputs == {IntV(3), IntV(0 - 1), StrV(FOO)}

InitNamespace ==
    /\ configuration_manager = IdleManager
    /\ namespace = ConfigNamespace(A, <<>>).ns
    /\ record = IdleRecord
    /\ appcfg = IdleAppcfg
    /\ last = NoCall
    /\ threads = IdleThreads
    /\ heap = <<>>
    /\ lock = NOLOCK

\* a call on the namespace object returns: out is its outcome, args its
\* inputs and pre the object when the call was made
NamespaceCall(op, args, out) ==
    /\ Ready
    /\ namespace' = out.ns
    /\ last' = [op |-> op, args |-> args, exc |-> out.exc, ret |-> out.ret,
                pre |-> namespace]
    /\ UNCHANGED <<configuration_manager, record, appcfg,
                 threads, heap, lock>>

\* the caller's variable after cr = ConfigNamespace(...): the new object,
\* or the old one when the constructor raised
Rebound(old, made) ==
    [ns |-> IF made.exc = "None" THEN made.ns ELSE old, exc |-> made.exc,
     ret |-> <<>>]

NewNamespace(nspc, batch) ==
    NamespaceCall("ConfigNamespace", [nspc |-> nspc, batch |-> batch],
                  Rebound(namespace, ConfigNamespace(nspc, batch)))

\* the outcome of a call that leaves the namespace as it is
Unchanged(ns, out) == [ns |-> ns, exc |-> out.exc, ret |-> out.ret]

HasProperty(name) ==
    NamespaceCall("has_property", [name |-> name],
                  Unchanged(namespace, has_property(namespace, name)))

\* add_property returns getattr(self, name)
Added(name, out) ==
    [ns |-> out.ns, exc |-> out.exc,
     ret |-> IF out.exc = "None" THEN name ELSE <<>>]

AddProperty(name, defn) ==
    NamespaceCall("add_property", [name |-> name, defn |-> defn],
                  Added(name, add_property(namespace, name, defn)))

AddProperties(batch) ==
    NamespaceCall("add_properties", [batch |-> batch],
                  add_properties(namespace, batch))

\* ns.<name>.value = value: the record is the object in the namespace
Assigned(ns, name, out) ==
    [ns |-> Update(ns, Single(name, out.rec)), exc |-> out.exc,
     ret |-> out.events]

SetPropertyValue(name, value) ==
    /\ name \in DOMAIN namespace
    /\ namespace[name].kind = "rec"
    /\ NamespaceCall("set_value", [name |-> name, value |-> value],
                     Assigned(namespace, name,
                              SetValue(namespace[name], value)))

\* ns.<name>.value
GetPropertyValue(name) ==
    /\ name \in DOMAIN namespace
    /\ namespace[name].kind = "rec"
    /\ NamespaceCall("get_value", [name |-> name],
                     Unchanged(namespace, GetValue(namespace[name])))

\* ns.<name>.name = newname: the record is the object in the namespace,
\* under the key it was stored with
Renamed(ns, name, out) ==
    [ns |-> Update(ns, Single(name, out.rec.obj)), exc |-> out.exc,
     ret |-> <<>>]

RenameProperty(name, newname) ==
    /\ name \in DOMAIN namespace
    /\ namespace[name].kind = "rec"
    /\ NamespaceCall("set_name", [name |-> name, newname |-> newname],
                     Renamed(namespace, name,
                             NameSetter([cls |-> "ConfigPropertyRecordExt",
                                         obj |-> namespace[name]],
                                        newname)))

NextNamespace ==
    \/ Forget
    \/ \E newname \in {BAR, BADNAME} : RenameProperty(FOO, newname)
    \/ \E nspc \in {A, BADNS}, batch \in Kwargs : NewNamespace(nspc, batch)
    \/ \E name \in PropInputs \cup {BAR, FOONL} : HasProperty(name)
    \/ \E name \in PropInputs \cup {BAR, FOONL}, defn \in DefnInputs :
          AddProperty(name, defn)
    \/ \E batch \in PropertyBatches : AddProperties(batch)
    \/ \E name \in {FOO, BAR}, value \in ValueInputs :
          SetPropertyValue(name, value)
    \/ \E name \in {FOO, BAR} : GetPropertyValue(name)

SpecNamespace == InitNamespace /\ [][NextNamespace]_vars

(***************************************************************************)
(* SpecResolve: an AppConfig object on a property record of the module     *)
(* a.b, configured by its constructor and its setters and resolved.       *)
(***************************************************************************)
\* (argalias, argformat) as a caller gives them
ArgInputs ==
    {<<NoArg, "None">>, <<ArgCall(IntV(2)), "None">>,
     <<ArgValue(IntV(2)), "reformat">>}

\* (envalias, envformat)
EnvInputs ==
    {<<<<>>, "None">>, <<<<ENVVAR>>, "reformatstr">>,
     <<<<ENVMISS, ENVEMPTY, ENVVAR>>, "None">>}

\* (cfgparser, cfgalias, cfgformat)
CfgInputs ==
    {<<"None", <<>>, "None">>,
     <<"parser", <<<<"s", "k1">>>>, "None">>,
     <<"parser", <<<<"s", "z">>, <<"s", "k2">>, <<"s", "k1">>>>,
       "reformatstr">>}

\* (dictconfig, dictalias, dictformat); an alias is a list of keys or a key
DictInputs ==
    {<<"None", <<>>, "None">>,
     <<"dcfg", <<[islist |-> TRUE, keys |-> <<"first", "second", "foo">>]>>,
       "reformat">>,
     <<"dcfg", <<[islist |-> FALSE, keys |-> <<"foo">>],
                 [islist |-> TRUE, keys |-> <<"first", "second", "foo">>]>>,
       "None">>,
     <<"dcfg", <<[islist |-> TRUE, keys |-> <<"first", "zzz", "foo">>],
                 [islist |-> TRUE, keys |-> <<"first", "second", "nil">>],
                 [islist |-> TRUE, keys |-> <<"first", "second", "foo">>]>>,
       "None">>,
     <<"dcfg", <<[islist |-> TRUE,
                  keys |-> <<"first", "second", "foo", "x">>],
                 [islist |-> TRUE, keys |-> <<"first", "second", "foo">>]>>,
       "None">>}

\* default_value, given or not
DefaultInputs == {<<FALSE, NoneV>>, <<TRUE, IntV(9)>>, <<TRUE, NoneV>>}

\* the keyword arguments of AppConfig(...)
AppKwargs ==
    {[argalias |-> a[1], argformat |-> a[2],
      envalias |-> e[1], envformat |-> e[2],
      cfgparser |-> c[1], cfgalias |-> c[2], cfgformat |-> c[3],
      dictconfig |-> d[1], dictalias |-> d[2], dictformat |-> d[3],
      default_value |-> f[2], has_default |-> f[1]] :
        a \in ArgInputs, e \in EnvInputs, c \in CfgInputs, d \in DictInputs,
        f \in DefaultInputs}

\* the property foo of the module as the tests add it, with and without
\* the validate hook, and without a value
RecordDefns == {DictDefn(TRUE, IntV(5), "tstvalidate", "None"),
                DictDefn(TRUE, IntV(5), "None", "None"),
                DictDefn(FALSE, NoneV, "tstvalidate", "tstcallback")}

\* configuration_manager = None; getConfig(__name__).add_property('foo', ..)
InitResolve ==
    /\ \E defn \in RecordDefns :
          configuration_manager
              = getConfig(NoManager, AB, TRUE, <<<<FOO, defn>>>>, AB).cm
    /\ namespace = IdleNamespace
    /\ record = IdleRecord
    /\ appcfg = IdleAppcfg
    /\ last = NoCall
    /\ threads = IdleThreads
    /\ heap = <<>>
    /\ lock = NOLOCK

\* appcfg = AppConfig(fqname, **kw): the variable is bound when the
\* constructor returns.  One object is followed: each AppConfig of the
\* program is independent of the others but for the record it writes.
NewAppConfig(fqname, kw, out) ==
    /\ Ready
    /\ ~appcfg.isset
    /\ configuration_manager' = out.cm
    /\ appcfg' = IF out.exc = "None" THEN out.ac ELSE appcfg
    /\ last' = [op |-> "AppConfig", args |-> [fqname |-> fqname, kw |-> kw],
                exc |-> out.exc]
    /\ UNCHANGED <<namespace, record,
                 threads, heap, lock>>

\* a setter of the AppConfig object returns
SetterCall(op, args, ac) ==
    /\ Ready
    /\ appcfg.isset
    /\ appcfg' = ac
    /\ last' = [op |-> op, args |-> args, exc |-> "None"]
    /\ UNCHANGED <<configuration_manager, namespace, record,
                 threads, heap, lock>>

SetArgAlias(argalias, argformat) ==
    SetterCall("set_argalias",
               [argalias |-> argalias, argformat |-> argformat],
               set_argalias(appcfg, argalias, argformat))

SetEnvAlias(envalias, envformat) ==
    SetterCall("set_envalias",
               [envalias |-> envalias, envformat |-> envformat],
               set_envalias(appcfg, envalias, envformat))

SetCfgAlias(cfgparser, cfgalias, cfgformat) ==
    SetterCall("set_cfgalias",
               [cfgparser |-> cfgparser, cfgalias |-> cfgalias,
                cfgformat |-> cfgformat],
               set_cfgalias(appcfg, cfgparser, cfgalias, cfgformat))

SetDictAlias(dictconfig, dictalias, dictformat) ==
    SetterCall("set_dictalias",
               [dictconfig |-> dictconfig, dictalias |-> dictalias,
                dictformat |-> dictformat],
               set_dictalias(appcfg, dictconfig, dictalias, dictformat))

\* the calls that configure an AppConfig object
ConfiguringOps ==
    {"AppConfig", "set_argalias", "set_envalias", "set_cfgalias",
     "set_dictalias"}

\* appcfg.resolve() returns; after is the configuring call it follows, if
\* it follows one, ac the object it was made on and pre the destination
\* record when it was made
Resolve(out) ==
    /\ appcfg.isset
    /\ last.op \in ConfiguringOps \cup {"none"}
    /\ configuration_manager' = out.cm
    /\ last' = [op |-> "resolve", exc |-> out.exc, ret |-> out.ret,
                writes |-> out.writes, after |-> last, ac |-> appcfg,
                pre |-> Deref(configuration_manager, appcfg.record)]
    /\ UNCHANGED <<namespace, record, appcfg,
                 threads, heap, lock>>

\* appcfg.value = val returns
AssignValue(val, out) ==
    /\ Ready
    /\ appcfg.isset
    /\ configuration_manager' = out.cm
    /\ last' = [op |-> "value=", args |-> [val |-> val], exc |-> out.exc,
                pre |-> Deref(configuration_manager, appcfg.record)]
    /\ UNCHANGED <<namespace, record, appcfg,
                 threads, heap, lock>>

\* appcfg.value returns
ReadValue(out) ==
    /\ Ready
    /\ appcfg.isset
    /\ last' = [op |-> "value", exc |-> out.exc, ret |-> out.ret]
    /\ UNCHANGED <<configuration_manager, namespace, record, appcfg,
                 threads, heap, lock>>

NextResolve ==
    \/ Forget
    \/ \E kw \in AppKwargs :
          NewAppConfig(Dotted(AB, FOO), kw,
                       AppConfig(configuration_manager, Dotted(AB, FOO),
                                 TRUE, kw, AB))
    \/ NewAppConfig(Dotted(AB, BAR), NoKwargs,
                    AppConfig(configuration_manager, Dotted(AB, BAR), TRUE,
                              NoKwargs, AB))
    \/ \E a \in ArgInputs : SetArgAlias(a[1], a[2])
    \/ \E e \in EnvInputs : SetEnvAlias(e[1], e[2])
    \/ \E c \in CfgInputs : SetCfgAlias(c[1], c[2], c[3])
    \/ \E d \in DictInputs : SetDictAlias(d[1], d[2], d[3])
    \/ Resolve(resolve(appcfg, configuration_manager))
    \/ \E val \in {IntV(9), IntV(0 - 1)} :
          AssignValue(val, SetAppValue(appcfg, configuration_manager, val))
    \/ ReadValue(GetValue(Deref(configuration_manager, appcfg.record)))

SpecResolve == InitResolve /\ [][NextResolve]_vars

(***************************************************************************)
(* SpecRecord: one property record, of either class, made by a constructor *)
(* or by copy, named, assigned and read.  given is the value the record    *)
(* was last given, by its constructor or by an assignment that stored.     *)
(***************************************************************************)
\* the names a caller gives a record
RecordNames == {FOO, BADNAME}
\* the names a caller assigns to record.name
NameInputs == {FOO, BAR, BADNAME, FOONL, <<>>}
\* the values a caller gives: 3, -1 and None
RecordValues == {IntV(3), IntV(0 - 1), NoneV}
\* the keyword arguments of ConfigPropertyRecordExt
ExtDefns ==
    {DictDefn(h, v, validate, callback) :
        h \in BOOLEAN, v \in {IntV(5), IntV(0 - 1), StrV(FOO)},
        validate \in {"None", "tstvalidate"},
        callback \in {"None", "tstcallback"}}

\* no value was ever given
NotGiven == [ever |-> FALSE, value |-> NoneV, by |-> "nothing"]
Gave(value, by) == [ever |-> TRUE, value |-> value, by |-> by]

\* cr = ConfigPropertyRecord('foo')
InitRecord ==
    /\ configuration_manager = IdleManager
    /\ namespace = IdleNamespace
    /\ record = [rec |-> ConfigPropertyRecord(FOO, FALSE, NoneV),
                 given |-> NotGiven]
    /\ appcfg = IdleAppcfg
    /\ last = NoCall
    /\ threads = IdleThreads
    /\ heap = <<>>
    /\ lock = NOLOCK

\* a call on the record returns: pre is the record when it was made
RecordCall(op, args, exc, ret, rec, given) ==
    /\ Ready
    /\ record' = [rec |-> rec, given |-> given]
    /\ last' = [op |-> op, args |-> args, exc |-> exc, ret |-> ret,
                pre |-> record]
    /\ UNCHANGED <<configuration_manager, namespace, appcfg,
                 threads, heap, lock>>

NewPlainRecord(name, hasvalue, value) ==
    RecordCall("ConfigPropertyRecord",
               [name |-> name, hasvalue |-> hasvalue, value |-> value],
               "None", <<>>, ConfigPropertyRecord(name, hasvalue, value),
               IF hasvalue THEN Gave(value, "constructor") ELSE NotGiven)

\* cr = ConfigPropertyRecordExt(name, **defn); ret is the hooks that ran
Constructed_ext(name, defn, made) ==
    RecordCall("ConfigPropertyRecordExt", [name |-> name, defn |-> defn],
               made.exc, made.events,
               IF made.exc = "None" THEN made.rec ELSE record.rec,
               IF made.exc # "None" THEN record.given
               ELSE IF defn.hasvalue THEN Gave(defn.value, "constructor")
               ELSE NotGiven)

NewExtRecord(name, defn) == Constructed_ext(name, defn, ExtNew(name, defn))

\* cr = ConfigPropertyRecordExt(cr)
CopyRecord ==
    RecordCall("copy", [src |-> record.rec], ExtCopy(record.rec).exc,
               ExtCopy(record.rec).events, ExtCopy(record.rec).rec,
               record.given)

SetRecordName(name) ==
    RecordCall("set_name", [name |-> name],
               NameSetter(record.rec, name).exc, <<>>,
               NameSetter(record.rec, name).rec, record.given)

\* cr.value = value: the assignment stored unless validate, or the read
\* of the hook attributes, raised
Assigned_record(value, set) ==
    RecordCall("set_value", [value |-> value], set.exc, set.events,
               [record.rec EXCEPT !.obj = set.rec],
               IF set.exc \in {"None", "CallbackException"}
               THEN Gave(value, "assignment") ELSE record.given)

SetRecordValue(value) ==
    Assigned_record(value, ValueSetter(record.rec, value))

\* cr.value
GetRecordValue ==
    RecordCall("get_value", <<>>, GetValue(record.rec.obj).exc,
               GetValue(record.rec.obj).ret, record.rec, record.given)

NextRecord ==
    \/ Forget
    \/ \E name \in RecordNames, hasvalue \in BOOLEAN, value \in RecordValues :
          NewPlainRecord(name, hasvalue, IF hasvalue THEN value ELSE NoneV)
    \/ \E name \in RecordNames, defn \in ExtDefns : NewExtRecord(name, defn)
    \/ CopyRecord
    \/ \E name \in NameInputs : SetRecordName(name)
    \/ \E value \in RecordValues : SetRecordValue(value)
    \/ GetRecordValue

SpecRecord == InitRecord /\ [][NextRecord]_vars

(***************************************************************************)
(* SpecNames: the two name tests, applied to every string of a small       *)
(* alphabet up to a length, to the default name and to names around it.    *)
(***************************************************************************)
\* a letter, a digit, the underscore, the separator, a symbol and a newline
NameAlphabet == {"a", "1", "_", NS_SEP, "!", "\n"}

\* the strings given to the name tests
NameStrings ==
    UNION {[1..n -> NameAlphabet] : n \in 0..MaxNameLen}
    \cup {DEFAULT_NS, Dotted(DEFAULT_NS, A), Dotted(A, DEFAULT_NS),
          SubSeq(DEFAULT_NS, 2, Len(DEFAULT_NS))}

InitNames ==
    /\ configuration_manager = IdleManager
    /\ namespace = IdleNamespace
    /\ record = IdleRecord
    /\ appcfg = IdleAppcfg
    /\ last = NoCall
    /\ threads = IdleThreads
    /\ heap = <<>>
    /\ lock = NOLOCK

\* a name test returns; its result is taken as a truth value
NameTest(op, name, ret) ==
    /\ Ready
    /\ last' = [op |-> op, args |-> [name |-> name], exc |-> "None",
                ret |-> ret]
    /\ UNCHANGED <<configuration_manager, namespace, record, appcfg,
                 threads, heap, lock>>

IsNsNameValid(name) == NameTest("isnsnamevalid", name, isnsnamevalid(name))

IsPropertyNameValid(name) ==
    NameTest("ispropertynamevalid", name, ispropertynamevalid(name))

NextNames ==
    \/ Forget
    \/ \E name \in NameStrings : IsNsNameValid(name)
    \/ \E name \in NameStrings : IsPropertyNameValid(name)

SpecNames == InitNames /\ [][NextNames]_vars

(***************************************************************************)
(* Threads in the singleton accessors.  Each thread calls                  *)
(* getConfigManager() or getConfig(nspc) and runs it one access of the     *)
(* module global at a time: the test `if not configuration_manager`, the   *)
(* construction, the assignment of the global and the read of the global   *)
(* that `return configuration_manager` makes.  Here the global is a        *)
(* reference to a registry object of heap, so that two registries with the *)
(* same content are two objects.  The library takes no lock; lock is the   *)
(* one the callers keep around a call when they coordinate, NOLOCK when    *)
(* they do not.                                                            *)
(***************************************************************************)
\* the module global once it is assigned the registry object heap[id]
Ref(id) == [isset |-> TRUE, id |-> id]

\* a slip the test could have: the global is taken as unset every time
Unset_always(cm) == TRUE

\* `not configuration_manager`
Unset(cm) == ~cm.isset

InitThreads ==
    /\ configuration_manager = NoManager
    /\ namespace = IdleNamespace
    /\ record = IdleRecord
    /\ appcfg = IdleAppcfg
    /\ last = NoCall
    /\ threads = IdleThreads
    /\ heap = <<>>
    /\ lock \in {NOLOCK, FREE}

\* the lock of the callers once thread t leaves its call
Released == IF lock = NOLOCK THEN NOLOCK ELSE FREE

\* thread t calls getConfigManager() or getConfig(nspc); callers that
\* coordinate take their lock first
Enter(t, op, nspc) ==
    /\ threads[t].pc = "idle"
    /\ threads[t].calls < MaxCalls
    /\ lock \in {NOLOCK, FREE}
    /\ lock' = IF lock = NOLOCK THEN NOLOCK ELSE t
    /\ threads' = [threads EXCEPT ![t].pc = "test", ![t].op = op,
                                  ![t].nspc = nspc, ![t].calls = @ + 1]
    /\ UNCHANGED <<configuration_manager, heap, namespace, record, appcfg,
                   last>>

\* `if not configuration_manager:` reads the global
Test(t) ==
    /\ threads[t].pc = "test"
    /\ threads' = [threads EXCEPT
                      ![t].pc = IF Unset(configuration_manager)
                                THEN "build" ELSE "return",
                      ![t].saw = @ \/ Unset(configuration_manager)]
    /\ UNCHANGED <<configuration_manager, heap, lock, namespace, record,
                   appcfg, last>>

\* configuration_manager_factory(1, **kwargs) returns a new registry
Build(t) ==
    /\ threads[t].pc = "build"
    /\ heap' = Append(heap, ConfigurationManager(1, <<>>).mgr)
    /\ threads' = [threads EXCEPT ![t].pc = "store",
                                  ![t].made = Len(heap) + 1]
    /\ UNCHANGED <<configuration_manager, lock, namespace, record, appcfg,
                   last>>

\* configuration_manager = <the new registry>
Store(t) ==
    /\ threads[t].pc = "store"
    /\ configuration_manager' = Ref(threads[t].made)
    /\ threads' = [threads EXCEPT ![t].pc = "return"]
    /\ UNCHANGED <<heap, lock, namespace, record, appcfg, last>>

\* `return configuration_manager` reads the global again; getConfig keeps
\* what is returned in mgr, a call of getConfigManager ends here
Return(t) ==
    /\ threads[t].pc = "return"
    /\ threads' = [threads EXCEPT
                      ![t].mgr = configuration_manager.id,
                      ![t].pc = IF threads[t].op = "getConfig"
                                THEN "use" ELSE "idle"]
    /\ lock' = IF threads[t].op = "getConfig" THEN lock ELSE Released
    /\ UNCHANGED <<configuration_manager, heap, namespace, record, appcfg,
                   last>>

\* the rest of getConfig(nspc) on the registry mgr refers to
Use(t) ==
    /\ threads[t].pc = "use"
    /\ heap' = [heap EXCEPT
                   ![threads[t].mgr] =
                       getConfigWith(@, threads[t].nspc, TRUE, <<>>,
                                     threads[t].nspc).cm]
    /\ threads' = [threads EXCEPT ![t].pc = "idle"]
    /\ lock' = Released
    /\ UNCHANGED <<configuration_manager, namespace, record, appcfg, last>>

NextThreads ==
    \/ \E t \in Threads : Enter(t, "getConfigManager", <<>>)
    \/ \E t \in Threads : \E nspc \in {A, AB} : Enter(t, "getConfig", nspc)
    \/ \E t \in Threads : Test(t)
    \/ \E t \in Threads : Build(t)
    \/ \E t \in Threads : Store(t)
    \/ \E t \in Threads : Return(t)
    \/ \E t \in Threads : Use(t)

SpecThreads == InitThreads /\ [][NextThreads]_vars

(***************************************************************************)
(* The notions the properties speak of, stated without the operators of   *)
(* the model.                                                              *)
(***************************************************************************)
\* the names got from n by cutting it before one of its dots
DotPrefixes(n) == {SubSeq(n, 1, i - 1) : i \in {k \in 1..Len(n) : n[k] = "."}}

\* the namespaces a manager value holds; the unset global is built with the
\* default namespace alone by the first call that needs it
Registered(cm) ==
    IF cm.isset THEN cm.namespaces
    ELSE Single(DEFAULT_NS, Single(NAME_KEY, AttrEntry(DEFAULT_NS)))

\* n itself and its dot-prefixes, those that are registered
Lineage(reg, n) == {m \in {n} \cup DotPrefixes(n) : m \in DOMAIN reg}

\* the longest registered name of the lineage of n, else the default
Nearest(reg, n) ==
    IF Lineage(reg, n) = {} THEN DEFAULT_NS
    ELSE CHOOSE m \in Lineage(reg, n) :
            \A o \in Lineage(reg, n) : Len(o) <= Len(m)

\* namespace m of reg holds a property record called prop
HasRecord(reg, m, prop) ==
    /\ m \in DOMAIN reg
    /\ prop \in DOMAIN reg[m]
    /\ reg[m][prop].kind = "rec"

\* the nearest namespace of the lineage of n, or else the default
\* namespace, that holds a record called prop; <<>> when none does
NearestWith(reg, n, prop) ==
    LET holders == {m \in Lineage(reg, n) : HasRecord(reg, m, prop)}
    IN  IF holders # {}
        THEN CHOOSE m \in holders : \A o \in holders : Len(o) <= Len(m)
        ELSE IF HasRecord(reg, DEFAULT_NS, prop) THEN DEFAULT_NS
        ELSE <<>>

\* a namespace with no property: only its name attribute
EmptyNamespace(nspc) == Single(NAME_KEY, AttrEntry(nspc))

\* an explicit, grammatical name that is not registered while the name one
\* segment shorter is: "pkg.mod" beside "pkg"
ChildOfRegistered(reg, nspc) ==
    /\ isnsnamevalid(nspc)
    /\ nspc \notin DOMAIN reg
    /\ RFind(nspc, NS_SEP) > 0
    /\ SubSeq(nspc, 1, RFind(nspc, NS_SEP) - 1) \in DOMAIN reg

(***************************************************************************)
(* C2.  getConfig("pkg.mod"), ornearest true, with "pkg" registered and    *)
(* "pkg.mod" not.                                                          *)
(***************************************************************************)
C2_Case ==
    /\ last.op = "getConfig"
    /\ last.args.nspc # <<>>
    /\ last.args.ornearest
    /\ last.args.kwargs = <<>>
    /\ last.pre.isset
    /\ ChildOfRegistered(last.pre.namespaces, last.args.nspc)

\* C2, as stated: the call returns the existing parent namespace (its name
\* is the parent's) and registers nothing.
C2_ReturnsParent ==
    C2_Case =>
        /\ last.exc = "None"
        /\ last.ret = SubSeq(last.args.nspc, 1,
                             RFind(last.args.nspc, NS_SEP) - 1)
        /\ DOMAIN configuration_manager.namespaces
               = DOMAIN last.pre.namespaces

\* C2, as the code has it: a getConfig call that names an unregistered namespace
\* registers a new empty namespace of that name and returns it, leaving the
\* others as they were; the nearest registered ancestor is returned, and
\* nothing registered, only when the name is omitted and the calling
\* module's name is looked up with ornearest true.
C2_CreatesNamed ==
    /\ C2_Case =>
        /\ last.exc = "None"
        /\ last.ret = last.args.nspc
        /\ configuration_manager.namespaces
               = Update(last.pre.namespaces,
                        Single(last.args.nspc,
                               EmptyNamespace(last.args.nspc)))
    /\ ( /\ last.op = "getConfig"
         /\ last.args.nspc = <<>>
         /\ last.args.ornearest
         /\ isnsnamevalid(last.args.caller) ) =>
        /\ last.exc = "None"
        /\ last.ret = Nearest(Registered(last.pre), last.args.caller)
        /\ configuration_manager.namespaces = Registered(last.pre)

C2_Witness ==
    /\ C2_Case
    /\ last.args.nspc = AB
    /\ last.ret = AB
    /\ A \in DOMAIN last.pre.namespaces
    /\ AB \in DOMAIN configuration_manager.namespaces

C6_AnyName ==
    last.op = "get_namespace" =>
        /\ last.args.ornearest => last.exc = "None"
        /\ ( /\ ~last.args.ornearest
             /\ last.args.nspc \notin DOMAIN configuration_manager.namespaces )
           => last.exc = "ConfigManagerMissingNamespace"

\* C6, as the code has it: the above holds for the names isnsnamevalid
\* accepts; any other name raises ConfigNamespaceBadName whatever ornearest
\* is.
C6_ValidName ==
    last.op = "get_namespace" =>
        IF isnsnamevalid(last.args.nspc)
        THEN /\ last.args.ornearest => last.exc = "None"
             /\ ( /\ ~last.args.ornearest
                  /\ last.args.nspc
                        \notin DOMAIN configuration_manager.namespaces )
                => last.exc = "ConfigManagerMissingNamespace"
        ELSE last.exc = "ConfigNamespaceBadName"

C6_Witness ==
    /\ last.op = "get_namespace"
    /\ last.args.nspc = ABC
    /\ ~last.args.ornearest
    /\ AB \in DOMAIN configuration_manager.namespaces
    /\ last.exc = "ConfigManagerMissingNamespace"

(***************************************************************************)
(* C7.  get_namespace(name, ornearest=True) returns the namespace          *)
(* registered under name, else its closest registered ancestor, else the   *)
(* default namespace; never a namespace outside the lineage of name.       *)
(***************************************************************************)
C7_NearestAncestor ==
    ( /\ last.op = "get_namespace"
      /\ last.args.ornearest
      /\ isnsnamevalid(last.args.nspc) ) =>
        LET reg == configuration_manager.namespaces
        IN  /\ last.exc = "None"
            /\ last.ret = Nearest(reg, last.args.nspc)
            /\ last.ret = parent_namespaces(configuration_manager,
                                            last.args.nspc)[1]
            /\ NsName(reg[last.ret]) = last.ret

C7_Witness ==
    /\ last.op = "get_namespace"
    /\ last.args.ornearest
    /\ last.args.nspc = ABC
    /\ {A, AB, AX} \subseteq DOMAIN configuration_manager.namespaces
    /\ last.ret = AB

(***************************************************************************)
(* C8.  getConfigRecord("ns.prop", ornearest) returns the record prop of   *)
(* ns when ns holds one; else, with ornearest, the record of the first     *)
(* namespace of parent_namespaces(ns) that holds one; else it raises       *)
(* ConfigPropertyNotFound.                                                 *)
(***************************************************************************)
C8_Case ==
    /\ last.op = "getConfigRecord"
    /\ RFind(last.args.fqname, NS_SEP) > 0
    /\ isnsnamevalid(SubSeq(last.args.fqname, 1,
                            RFind(last.args.fqname, NS_SEP) - 1))
    /\ ispropertynamevalid(SubSeq(last.args.fqname,
                                  RFind(last.args.fqname, NS_SEP) + 1,
                                  Len(last.args.fqname)))

C8_Expected(reg, nspc, prop, ornearest) ==
    IF HasRecord(reg, nspc, prop)
    THEN /\ last.exc = "None"
         /\ last.ret = [ns |-> nspc, prop |-> prop, entry |-> reg[nspc][prop]]
    ELSE IF ornearest /\ NearestWith(reg, nspc, prop) # <<>>
    THEN /\ last.exc = "None"
         /\ last.ret = [ns |-> NearestWith(reg, nspc, prop), prop |-> prop,
                        entry |-> reg[NearestWith(reg, nspc, prop)][prop]]
    ELSE last.exc = "ConfigPropertyNotFound"

\* C8: the record returned, or the exception raised, is the expected one
C8_RecordLookup ==
    C8_Case =>
        C8_Expected(Registered(last.pre),
                    SubSeq(last.args.fqname, 1,
                           RFind(last.args.fqname, NS_SEP) - 1),
                    SubSeq(last.args.fqname,
                           RFind(last.args.fqname, NS_SEP) + 1,
                           Len(last.args.fqname)),
                    last.args.ornearest)

\* the same, for every property name but the namespace attribute "name"
C8_RecordLookupButName ==
    ( /\ C8_Case
      /\ SubSeq(last.args.fqname, RFind(last.args.fqname, NS_SEP) + 1,
                Len(last.args.fqname)) # NAME_KEY ) =>
        C8_Expected(Registered(last.pre),
                    SubSeq(last.args.fqname, 1,
                           RFind(last.args.fqname, NS_SEP) - 1),
                    SubSeq(last.args.fqname,
                           RFind(last.args.fqname, NS_SEP) + 1,
                           Len(last.args.fqname)),
                    last.args.ornearest)

(***************************************************************************)
(* C3.  An assignment the validate hook rejects leaves the stored value    *)
(* and the has-value flag of the record as they were, runs no callback and *)
(* raises the validator's exception.                                       *)
(***************************************************************************)
\* the last call assigned, to a record validated by tstvalidate, a value
\* that is not a number of 1..9
C3_Case ==
    /\ last.op = "set_value"
    /\ last.pre[last.args.name].validate = "tstvalidate"
    /\ ~(last.args.value.t = "int" /\ last.args.value.n \in 1..9)

\* C3: a rejected assignment raises ValidationException, changes nothing
\* of the namespace or the record and runs neither the store nor the callback
C3_RejectedAssignment ==
    C3_Case =>
        /\ last.exc = "ValidationException"
        /\ namespace[last.args.name].value = last.pre[last.args.name].value
        /\ namespace[last.args.name].hasvalue
               = last.pre[last.args.name].hasvalue
        /\ namespace = last.pre
        /\ \A i \in 1..Len(last.ret) : last.ret[i].ev \notin {"callback",
                                                              "store"}

\* a rejected assignment to a record that has a callback
C3_Witness ==
    /\ C3_Case
    /\ last.pre[last.args.name].callback = "tstcallback"
    /\ last.exc = "ValidationException"

(***************************************************************************)
(* C4.  add_properties is all-or-nothing: a batch with a name that fails   *)
(* the grammar or that the namespace already holds raises and leaves the   *)
(* namespace as it was; a call that returns has stored every entry.        *)
(***************************************************************************)
\* the batch of the last add_properties has an entry, at any position, that
\* is not grammatical or names a property the namespace held
C4_Offending ==
    \E i \in 1..Len(last.args.batch) :
        \/ ~ispropertynamevalid(last.args.batch[i][1])
        \/ /\ last.args.batch[i][1] \in DOMAIN last.pre
           /\ last.pre[last.args.batch[i][1]].kind = "rec"

Given(attr) ==
    IF last.after.op = "AppConfig" THEN last.after.args.kw[attr]
    ELSE IF last.after.op # "none" /\ attr \in DOMAIN last.after.args
    THEN last.after.args[attr]
    ELSE last.ac[attr]

\* the sources that have a value to give
ArgYields == Given("argalias").kind # "none"
EnvYields ==
    \E i \in 1..Len(Given("envalias")) :
        Given("envalias")[i] \in DOMAIN Environ
CfgYields ==
    /\ Given("cfgparser") = "parser"
    /\ \E i \in 1..Len(Given("cfgalias")) :
          Given("cfgalias")[i] \in DOMAIN ParserOptions
DictYields ==
    /\ Given("dictconfig") = "dcfg"
    /\ \E i \in 1..Len(Given("dictalias")) :
          Given("dictalias")[i].keys \in DOMAIN DictPaths
DefaultYields == Given("has_default")

\* the source of highest priority that yields, "no" when none does
FirstYielding ==
    IF ArgYields THEN "arg"
    ELSE IF EnvYields THEN "env"
    ELSE IF CfgYields THEN "cfg"
    ELSE IF DictYields THEN "dict"
    ELSE IF DefaultYields THEN "default"
    ELSE "no"

\* the value of the destination record now
Destination == Deref(configuration_manager, last.ac.record)

\* resolve() made one assignment, from src, and what it assigned is the
\* value of the destination unless the record refused it
OneWriteFrom(src) ==
    /\ Len(last.writes) = 1
    /\ last.writes[1].src = src
    /\ last.exc = "None" =>
          /\ Destination.value = last.writes[1].val
          /\ last.ret = last.writes[1].val

(***************************************************************************)
(* C1.  resolve() commits the value of the source of highest priority that *)
(* yields, in the order argument, environment, config-parser, dictionary,  *)
(* default, and no other source writes the destination.                    *)
(***************************************************************************)
C1_Priority ==
    last.op = "resolve" =>
        IF FirstYielding = "no" THEN last.writes = <<>>
        ELSE OneWriteFrom(FirstYielding)

\* the same, for an object the config-parser source of which was
\* configured by the constructor alone, when no formatter and no
\* dictionary lookup raises TypeError
C1_PriorityAsConstructed ==
    ( /\ last.op = "resolve"
      /\ last.after.op # "set_cfgalias"
      /\ last.ac.cfgparser \in {"None", "parser"}
      /\ last.exc # "TypeError" ) =>
        IF FirstYielding = "no" THEN last.writes = <<>>
        ELSE OneWriteFrom(FirstYielding)

(***************************************************************************)
(* C9.  The value resolve() commits is formatter(name, r) when the source  *)
(* that yielded r was configured with a formatter, by the constructor or   *)
(* by its setter, and r itself when it was configured with none.           *)
(***************************************************************************)
\* the formatter the caller configured for the source src
GivenFormat(src) ==
    IF src = "arg" THEN Given("argformat")
    ELSE IF src = "env" THEN Given("envformat")
    ELSE IF src = "cfg" THEN Given("cfgformat")
    ELSE IF src = "dict" THEN Given("dictformat")
    ELSE "None"

\* the value a source configured with the formatter fmt commits for raw
Formatted(fmt, raw) ==
    IF fmt = "None" THEN raw
    ELSE IF fmt = "reformat" THEN reformat(Destination.name, raw).val
    ELSE reformatstr(Destination.name, raw).val

\* C9: what resolve() assigns is the raw value passed through the formatter
\* configured for its source, and that is what the destination then holds
C9_FormatterApplied ==
    (last.op = "resolve" /\ last.writes # <<>>) =>
        /\ last.writes[1].val
              = Formatted(GivenFormat(last.writes[1].src), last.writes[1].raw)
        /\ last.exc = "None" => Destination.value = last.writes[1].val

\* the same, but for resolve() called right after set_cfgalias or
\* set_dictalias
C9_FormatterAppliedButSetters ==
    ( /\ last.op = "resolve"
      /\ last.writes # <<>>
      /\ last.after.op \notin {"set_cfgalias", "set_dictalias"} ) =>
        /\ last.writes[1].val
              = Formatted(GivenFormat(last.writes[1].src), last.writes[1].raw)
        /\ last.exc = "None" => Destination.value = last.writes[1].val

(***************************************************************************)
(* C10.  When neither the argument nor the environment yields, resolve()   *)
(* commits the value the parser holds for the first configured (section,   *)
(* key) pair it has, whether the parser and the pairs were given to the    *)
(* constructor or to set_cfgalias.                                         *)
(***************************************************************************)
\* the first configured pair the parser has an option for
FirstPair ==
    Given("cfgalias")[CHOOSE i \in 1..Len(Given("cfgalias")) :
        /\ Given("cfgalias")[i] \in DOMAIN ParserOptions
        /\ \A j \in 1..(i - 1) :
              Given("cfgalias")[j] \notin DOMAIN ParserOptions]

C10_Case ==
    /\ last.op = "resolve"
    /\ ~ArgYields
    /\ ~EnvYields
    /\ CfgYields

\* C10: the one assignment of resolve() comes from the config-parser source
\* and its raw value is the parser's value for the first pair it has
C10_ParserSource ==
    C10_Case =>
        /\ OneWriteFrom("cfg")
        /\ last.writes[1].raw = StrV(ParserOptions[FirstPair])

\* the same, for the parser and the pairs given to the constructor
C10_ParserSourceAsConstructed ==
    (C10_Case /\ last.after.op = "AppConfig") =>
        /\ OneWriteFrom("cfg")
        /\ last.writes[1].raw = StrV(ParserOptions[FirstPair])

(***************************************************************************)
(* C11.  The dictionary source tries the configured key paths in order and *)
(* commits the value of the first path all of whose keys resolve, None     *)
(* included; a path with a key that does not resolve is a miss, the next   *)
(* path is tried, and nothing is raised.                                   *)
(***************************************************************************)
\* the keys of a configured path: a list of keys, or one bare key
KeysOf(p) == IF p.islist THEN p.keys ELSE <<p.keys>>

\* every key of the path leads somewhere in the dictionary
AllKeysResolve(p) == KeysOf(p) \in DOMAIN DictPaths

\* the path walks into a value that is no dictionary
ThroughLeaf(p) ==
    \E n \in 1..(Len(KeysOf(p)) - 1) :
        /\ SubSeq(KeysOf(p), 1, n) \in DOMAIN DictPaths
        /\ ~DictPaths[SubSeq(KeysOf(p), 1, n)].isdict

\* what the dictionary holds at the end of a path
EntryAt(path) ==
    IF DictPaths[path].isdict THEN DictV(path) ELSE DictPaths[path].value

\* the index of the first configured path all of whose keys resolve, 0
\* when there is none
FirstResolving(alias) ==
    IF \E i \in 1..Len(alias) : AllKeysResolve(alias[i])
    THEN CHOOSE i \in 1..Len(alias) :
            /\ AllKeysResolve(alias[i])
            /\ \A j \in 1..(i - 1) : ~AllKeysResolve(alias[j])
    ELSE 0

\* resolve() was called on an object whose argument, environment and
\* config-parser sources have nothing to give and which has a dictionary
DictReached ==
    /\ last.op = "resolve"
    /\ last.ac.argalias.kind = "none"
    /\ FirstIn(last.ac.envalias, DOMAIN Environ) = 0
    /\ \/ last.ac.cfgparser = "None"
       \/ last.ac.cfgalias = <<>>
       \/ /\ last.ac.cfgparser = "parser"
          /\ FirstIn(last.ac.cfgalias, DOMAIN ParserOptions) = 0
    /\ last.ac.dictconfig # "None"

\* the dictionary source found raw: it is passed through the formatter the
\* object holds and assigned, once
DictCommits(raw, formatted) ==
    IF formatted.exc # "None"
    THEN last.exc = formatted.exc /\ last.writes = <<>>
    ELSE /\ Len(last.writes) = 1
         /\ last.writes[1].src = "dict"
         /\ last.writes[1].raw = raw
         /\ last.writes[1].val = formatted.val
         /\ last.exc = "None" => Destination.value = formatted.val

\* no path resolves: the dictionary source assigns nothing and the lookup
\* raises nothing
DictMisses ==
    /\ \A i \in 1..Len(last.writes) : last.writes[i].src # "dict"
    /\ last.exc \in {"None", "ValidationException", "CallbackException",
                     "ConfigPropertyValueNotSet"}

\* C11: when resolve() gets as far as the dictionary source, what it
\* assigns is the entry of the first configured path all of whose keys
\* resolve, and with no such path the source assigns and raises nothing
C11_FirstResolvingPath ==
    DictReached =>
        IF FirstResolving(last.ac.dictalias) = 0 THEN DictMisses
        ELSE DictCommits(
                 EntryAt(KeysOf(last.ac.dictalias[
                     FirstResolving(last.ac.dictalias)])),
                 ApplyFormat(last.ac.dictformat, last.pre.name,
                     EntryAt(KeysOf(last.ac.dictalias[
                         FirstResolving(last.ac.dictalias)]))))

\* the same, when no path tried walks into a value that is no dictionary
C11_FirstResolvingPathOfDicts ==
    ( /\ DictReached
      /\ \A i \in 1..Len(last.ac.dictalias) :
            ~ThroughLeaf(last.ac.dictalias[i]) ) =>
        IF FirstResolving(last.ac.dictalias) = 0 THEN DictMisses
        ELSE DictCommits(
                 EntryAt(KeysOf(last.ac.dictalias[
                     FirstResolving(last.ac.dictalias)])),
                 ApplyFormat(last.ac.dictformat, last.pre.name,
                     EntryAt(KeysOf(last.ac.dictalias[
                         FirstResolving(last.ac.dictalias)]))))

\* a path that resolves to None is committed ahead of a later path
C11_NoneIsAHit ==
    /\ DictReached
    /\ last.writes # <<>>
    /\ last.writes[1].src = "dict"
    /\ last.writes[1].raw = NoneV
    /\ last.exc = "None"
    /\ Destination.hasvalue
    /\ Destination.value = NoneV

(***************************************************************************)
(* C12.  When no source yields, resolve() writes nothing: the value and    *)
(* hasvalue of the destination are what they were, an unset record stays   *)
(* unset, and neither validate nor callback is invoked.                    *)
(***************************************************************************)
\* nothing is configured on the object that could yield
NothingYields ==
    /\ last.op = "resolve"
    /\ last.ac.argalias.kind = "none"
    /\ FirstIn(last.ac.envalias, DOMAIN Environ) = 0
    /\ \/ last.ac.cfgparser = "None"
       \/ FirstIn(last.ac.cfgalias, DOMAIN ParserOptions) = 0
    /\ \/ last.ac.dictconfig = "None"
       \/ \A i \in 1..Len(last.ac.dictalias) :
             /\ ~AllKeysResolve(last.ac.dictalias[i])
             /\ ~ThroughLeaf(last.ac.dictalias[i])
    /\ ~last.ac.has_default

\* C12: resolve() on an object none of whose sources yields assigns
\* nothing, so no hook runs and the destination record is as it was
C12_NothingWritten ==
    NothingYields =>
        /\ last.writes = <<>>
        /\ Destination = last.pre
        /\ last.exc = IF last.pre.hasvalue THEN "None"
                      ELSE "ConfigPropertyValueNotSet"

\* resolve() with no yielding source, on a record that has hooks and no
\* value
C12_Witness ==
    /\ NothingYields
    /\ ~last.pre.hasvalue
    /\ last.pre.validate # "None"
    /\ last.pre.callback # "None"
    /\ ~Destination.hasvalue

(***************************************************************************)
(* C13.  For every name that matches the property grammar, add_property(   *)
(* name, value=v) on a namespace that has not had that name added          *)
(* succeeds; has_property(name) is then True and the stored record's value *)
(* is v.                                                                   *)
(***************************************************************************)
\* the property grammar: a letter, then letters, digits and underscores
PropertyGrammar(name) ==
    /\ Len(name) >= 1
    /\ name[1] \in Lower \cup Upper
    /\ \A i \in 2..Len(name) : name[i] \in Lower \cup Upper \cup Digit \cup {"_"}

\* add_property(name, value=v) was called with a grammatical name no
\* property record of the namespace had
C13_Case ==
    /\ last.op = "add_property"
    /\ PropertyGrammar(last.args.name)
    /\ last.args.defn.hasvalue
    /\ ~( /\ last.args.name \in DOMAIN last.pre
          /\ last.pre[last.args.name].kind = "rec" )

\* the call succeeded, has_property(name) is True and the record reads v
C13_Added ==
    /\ last.exc = "None"
    /\ has_property(namespace, last.args.name)
          = [exc |-> "None", ret |-> TRUE]
    /\ namespace[last.args.name].kind = "rec"
    /\ GetValue(namespace[last.args.name])
          = [exc |-> "None", ret |-> last.args.defn.value]

\* C13: adding a property under a grammatical name that was not added
\* before succeeds, and the namespace then has it with the value given
C13_AddThenHas == C13_Case => C13_Added

\* the same, for every name but 'name'
C13_AddThenHasButName ==
    (C13_Case /\ last.args.name # NAME_KEY) => C13_Added

(***************************************************************************)
(* C14.  For every name that violates the relevant grammar, every          *)
(* operation that takes the name fails with ConfigPropertyBadName or       *)
(* ConfigNamespaceBadName and leaves the record, the namespace and the     *)
(* registry unchanged.                                                     *)
(***************************************************************************)
\* the namespace grammar: dot-separated segments of the property grammar,
\* or the reserved default name
NamespaceGrammar(name) ==
    \/ name = DEFAULT_NS
    \/ /\ Len(name) >= 1
       /\ name[1] \in Lower \cup Upper
       /\ name[Len(name)] # NS_SEP
       /\ \A i \in 2..Len(name) :
             IF name[i - 1] = NS_SEP THEN name[i] \in Lower \cup Upper
             ELSE name[i] \in Lower \cup Upper \cup Digit \cup {"_", NS_SEP}

\* a call on the namespace object that was handed a name outside the
\* grammar of what it names
C14_Case ==
    \/ /\ last.op \in {"has_property", "add_property"}
       /\ ~PropertyGrammar(last.args.name)
    \/ /\ last.op = "add_properties"
       /\ last.args.batch # <<>>
       /\ ~PropertyGrammar(last.args.batch[1][1])
    \/ /\ last.op = "ConfigNamespace"
       /\ ~NamespaceGrammar(last.args.nspc)

\* the call raised the exception of the grammar and changed nothing
C14_Refused ==
    /\ last.exc = IF last.op = "ConfigNamespace"
                  THEN "ConfigNamespaceBadName" ELSE "ConfigPropertyBadName"
    /\ namespace = last.pre

\* C14: a namespace operation given a name outside its grammar raises the
\* bad-name exception and leaves the namespace as it was
C14_BadNameRefused == C14_Case => C14_Refused

\* the same, for names that do not end in a newline
C14_BadNameRefusedButNewline ==
    ( /\ C14_Case
      /\ last.op \in {"has_property", "add_property"}
            => last.args.name[Len(last.args.name)] # "\n" ) => C14_Refused

\* the registry calls, given a name outside the namespace grammar, raise ConfigNamespaceBadName and leave the registry
\* as it was
C14_RegistryRefuses ==
    ( /\ last.op \in {"has_namespace", "add_namespace", "get_namespace"}
      /\ ~NamespaceGrammar(last.args.nspc) ) =>
        /\ last.exc = "ConfigNamespaceBadName"
        /\ configuration_manager = last.pre

(***************************************************************************)
(* C15.  After construction and after any sequence of add_namespace,       *)
(* getConfig and getConfigRecord calls, successful or failing, a           *)
(* ConfigurationManager contains the reserved default namespace; it is     *)
(* created when the namespaces supplied do not include it.                 *)
(***************************************************************************)
\* the names of the namespaces supplied to the constructor
Supplied(fields) == {fields[i][1] : i \in 1..Len(fields)}

\* C15: a manager holds a namespace under the default name and called by
\* it, and one the constructor was not given is created empty
C15_DefaultNamespace ==
    /\ configuration_manager.isset =>
          /\ DEFAULT_NS \in DOMAIN configuration_manager.namespaces
          /\ NsName(configuration_manager.namespaces[DEFAULT_NS])
                = DEFAULT_NS
    /\ ( /\ last.op = "getConfigManager"
         /\ ~last.pre.isset
         /\ last.exc = "None"
         /\ DEFAULT_NS \notin Supplied(last.args.fields) ) =>
          configuration_manager.namespaces[DEFAULT_NS]
              = ConfigNamespace(DEFAULT_NS, <<>>).ns

\* a manager built from namespaces that do not include the default one
C15_Witness ==
    /\ last.op = "getConfigManager"
    /\ ~last.pre.isset
    /\ last.exc = "None"
    /\ A \in Supplied(last.args.fields)
    /\ DOMAIN configuration_manager.namespaces = {A, DEFAULT_NS}

(***************************************************************************)
(* C16.  getConfigManager() constructs the shared registry only on the     *)
(* first call after the singleton is unset; every later call returns that  *)
(* same instance with its namespaces unchanged, ignoring any fields        *)
(* passed; after the reference is reset to None, the next call builds a    *)
(* fresh registry with none of the namespaces added to the previous one.   *)
(***************************************************************************)
\* the registry built is made of the fields of this call alone
C16_Fresh ==
    /\ configuration_manager.isset
    /\ configuration_manager.version = 1
    /\ DOMAIN configuration_manager.namespaces
          = Supplied(last.args.fields) \cup {DEFAULT_NS}
    /\ \A i \in 1..Len(last.args.fields) :
          configuration_manager.namespaces[last.args.fields[i][1]]
              = ConfigNamespace(last.args.fields[i][1],
                                last.args.fields[i][2]).ns

\* C16: a call with the singleton set returns it as it is whatever fields
\* are passed, and a call with the singleton unset builds a registry from
\* the fields passed and nothing else
C16_BuiltOnce ==
    last.op = "getConfigManager" =>
        IF last.pre.isset
        THEN last.exc = "None" /\ configuration_manager = last.pre
        ELSE IF last.exc = "None" THEN C16_Fresh
        ELSE configuration_manager = last.pre

\* a later call that passes fields, on a registry to which a.b was added
C16_Witness ==
    /\ last.op = "getConfigManager"
    /\ last.pre.isset
    /\ last.args.fields # <<>>
    /\ AB \in DOMAIN last.pre.namespaces
    /\ configuration_manager = last.pre

(***************************************************************************)
(* C17.  getConfig(name, **extra) with an explicit name: if name is        *)
(* registered it returns that namespace after batch-adding extra to it,    *)
(* raising and adding nothing if any extra name already exists there; if   *)
(* name is not registered it registers a new namespace called name whose   *)
(* properties are exactly extra and returns it.                            *)
(***************************************************************************)
\* the registry getConfig works on: the singleton, or the one it builds
C17_Registry ==
    IF last.pre.isset THEN last.pre.namespaces
    ELSE Single(DEFAULT_NS, ConfigNamespace(DEFAULT_NS, <<>>).ns)

\* the names of extra
C17_Extra == {last.args.kwargs[i][1] : i \in 1..Len(last.args.kwargs)}

\* the property records of a namespace
PropertiesOf(ns) == {k \in DOMAIN ns : ns[k].kind = "rec"}

C17_Case ==
    /\ last.op = "getConfig"
    /\ last.args.nspc # <<>>
    /\ NamespaceGrammar(last.args.nspc)
    /\ \A k \in C17_Extra : PropertyGrammar(k)

\* the namespace called name holds a record for each item of extra
C17_HoldsExtra ==
    \A i \in 1..Len(last.args.kwargs) :
        configuration_manager.namespaces[last.args.nspc][
            last.args.kwargs[i][1]]
          = RecordFromDefn(last.args.kwargs[i][1], last.args.kwargs[i][2])

\* name was registered
C17_Merged ==
    IF C17_Extra \cap PropertiesOf(C17_Registry[last.args.nspc]) # {}
    THEN /\ last.exc = "ConfigNamespaceDuplicateProperty"
         /\ configuration_manager.namespaces = C17_Registry
    ELSE /\ last.exc = "None"
         /\ last.ret = last.args.nspc
         /\ C17_HoldsExtra
         /\ PropertiesOf(configuration_manager.namespaces[last.args.nspc])
               = PropertiesOf(C17_Registry[last.args.nspc]) \cup C17_Extra
         /\ \A k \in DOMAIN C17_Registry :
               k # last.args.nspc =>
                   configuration_manager.namespaces[k] = C17_Registry[k]

\* name was not registered
C17_Created ==
    /\ last.exc = "None"
    /\ last.ret = last.args.nspc
    /\ DOMAIN configuration_manager.namespaces
          = DOMAIN C17_Registry \cup {last.args.nspc}
    /\ NsName(configuration_manager.namespaces[last.args.nspc])
          = last.args.nspc
    /\ PropertiesOf(configuration_manager.namespaces[last.args.nspc])
          = C17_Extra
    /\ C17_HoldsExtra

\* C17: getConfig with an explicit name adds extra to the registered
\* namespace of that name, or registers a namespace holding exactly extra
C17_NamedNamespace ==
    C17_Case =>
        IF last.args.nspc \in DOMAIN C17_Registry THEN C17_Merged
        ELSE C17_Created

\* the same, when extra has no item called 'name'
C17_NamedNamespaceButName ==
    (C17_Case /\ NAME_KEY \notin C17_Extra) =>
        IF last.args.nspc \in DOMAIN C17_Registry THEN C17_Merged
        ELSE C17_Created

(***************************************************************************)
(* C18.  On assignment to a ConfigPropertyRecordExt, validate(name, v) is  *)
(* invoked strictly before v is stored and callback(name, v) strictly      *)
(* after; if the callback raises, its exception reaches the caller and v   *)
(* stays committed.                                                        *)
(***************************************************************************)
\* the positions in the events of the last assignment at which ev happened
C18_At(ev) == {i \in 1..Len(last.ret) : last.ret[i].ev = ev}

\* the record assigned to, before and after
C18_Before == last.pre[last.args.name]
C18_After == namespace[last.args.name]

C19_NoHookOnConstruction ==
    /\ last.op = "ConfigPropertyRecordExt" =>
          /\ last.exc = "None"
          /\ last.ret = <<>>
          /\ record.rec.cls = "ConfigPropertyRecordExt"
          /\ record.rec.obj.name = last.args.name
          /\ record.rec.obj.validate = last.args.defn.validate
          /\ record.rec.obj.callback = last.args.defn.callback
          /\ record.rec.obj.hasvalue = last.args.defn.hasvalue
          /\ last.args.defn.hasvalue =>
                record.rec.obj.value = last.args.defn.value
    /\ last.op = "copy" =>
          /\ last.exc = "None"
          /\ last.ret = <<>>
          /\ record.rec.cls = "ConfigPropertyRecordExt"
          /\ record.rec.obj = last.pre.rec.obj

\* a record constructed with hooks and an initial value its validator
\* rejects
C19_Witness ==
    /\ last.op = "ConfigPropertyRecordExt"
    /\ last.args.defn.hasvalue
    /\ last.args.defn.validate = "tstvalidate"
    /\ last.args.defn.callback = "tstcallback"
    /\ tstvalidate(last.args.name, last.args.defn.value)
          = "ValidationException"
    /\ record.rec.obj.value = last.args.defn.value

\* the copy of a record that has hooks and a value its validator rejects
C19_CopyReached ==
    /\ last.op = "copy"
    /\ record.rec.obj.validate = "tstvalidate"
    /\ record.rec.obj.hasvalue
    /\ tstvalidate(record.rec.obj.name, record.rec.obj.value)
          = "ValidationException"

(***************************************************************************)
(* C20.  Reading the value of a property record to which no value has ever *)
(* been assigned raises ConfigPropertyValueNotSet; after any successful    *)
(* assignment, of None too, every later read succeeds and returns the last *)
(* assigned value.                                                         *)
(***************************************************************************)
\* C20: a read raises ConfigPropertyValueNotSet when the record was never
\* given a value and returns the value last given otherwise; right after
\* an assignment that returned, the record reads as the value assigned
C20_ReadsLastAssigned ==
    /\ last.op = "get_value" =>
          IF record.given.ever
          THEN last.exc = "None" /\ last.ret = record.given.value
          ELSE last.exc = "ConfigPropertyValueNotSet"
    /\ (last.op = "set_value" /\ last.exc = "None") =>
          /\ record.rec.obj.hasvalue
          /\ record.rec.obj.value = last.args.value

\* a read of a record whose last assignment was of None
C20_Witness ==
    /\ last.op = "get_value"
    /\ record.given = Gave(NoneV, "assignment")
    /\ last.exc = "None"
    /\ last.ret = NoneV

\* a read of a record never given a value
C20_UnsetReached ==
    /\ last.op = "get_value"
    /\ ~record.given.ever
    /\ last.exc = "ConfigPropertyValueNotSet"

\* the name setter, given a name outside the property grammar that is not
\* the name the record has and does not end in a newline, raises
\* ConfigPropertyBadName and leaves the record as it was
C14_RecordNameRefused ==
    ( /\ last.op = "set_name"
      /\ ~PropertyGrammar(last.args.name)
      /\ last.args.name # last.pre.rec.obj.name
      /\ last.args.name # FOONL ) =>
        /\ last.exc = "ConfigPropertyBadName"
        /\ record = last.pre

(***************************************************************************)
(* C21.  The environment source tries the configured alias names in list   *)
(* order and uses the value of the first alias present in the process      *)
(* environment; an alias whose value is the empty string counts as         *)
(* present, and aliases after the first present one are not consulted.     *)
(***************************************************************************)
\* resolve() made its one assignment from src: raw passed through the
\* formatter and assigned
SourceCommits(src, raw, formatted) ==
    IF formatted.exc # "None"
    THEN last.exc = formatted.exc /\ last.writes = <<>>
    ELSE /\ Len(last.writes) = 1
         /\ last.writes[1].src = src
         /\ last.writes[1].raw = raw
         /\ last.writes[1].val = formatted.val
         /\ last.exc = "None" => Destination.value = formatted.val

\* the aliases of the object that the environment has, empty or not
PresentAliases ==
    {i \in 1..Len(last.ac.envalias) : last.ac.envalias[i] \in DOMAIN Environ}

\* the value the environment has for the first of them
FirstPresent ==
    StrV(Environ[last.ac.envalias[
        CHOOSE i \in PresentAliases : \A j \in PresentAliases : i <= j]])

\* resolve() was called on an object that has no argument value
C21_Case ==
    /\ last.op = "resolve"
    /\ last.ac.argalias.kind = "none"

\* C21: when resolve() gets as far as the environment source, what it
\* assigns is the environment's value for the first alias of the list that
\* the environment has, the empty string included, and with no such alias
\* the source assigns nothing
C21_FirstPresentAlias ==
    C21_Case =>
        IF PresentAliases = {}
        THEN \A i \in 1..Len(last.writes) : last.writes[i].src # "env"
        ELSE SourceCommits("env", FirstPresent,
                           ApplyFormat(last.ac.envformat, last.pre.name,
                                       FirstPresent))

\* the empty string of the second alias is committed, ahead of the third
\* alias, after the first was missed
C21_Witness ==
    /\ C21_Case
    /\ last.ac.envalias = <<ENVMISS, ENVEMPTY, ENVVAR>>
    /\ last.exc = "None"
    /\ last.writes # <<>>
    /\ last.writes[1].src = "env"
    /\ Destination.hasvalue
    /\ Destination.value = StrV(<<>>)

(***************************************************************************)
(* C22.  The static-default source fires if and only if a default_value    *)
(* was supplied when the AppConfig was constructed, whatever the default   *)
(* is: a supplied default of None is committed when no higher source       *)
(* yields, and an AppConfig built without default_value never commits a    *)
(* default.                                                                *)
(***************************************************************************)
\* resolve() was called on an object whose argument, environment,
\* config-parser and dictionary sources have nothing to give
C22_Case ==
    /\ last.op = "resolve"
    /\ last.ac.argalias.kind = "none"
    /\ PresentAliases = {}
    /\ \/ last.ac.cfgparser = "None"
       \/ last.ac.cfgalias = <<>>
       \/ /\ last.ac.cfgparser = "parser"
          /\ FirstIn(last.ac.cfgalias, DOMAIN ParserOptions) = 0
    /\ \/ last.ac.dictconfig = "None"
       \/ \A i \in 1..Len(last.ac.dictalias) :
             /\ ~AllKeysResolve(last.ac.dictalias[i])
             /\ ~ThroughLeaf(last.ac.dictalias[i])

\* C22: the object holds the default the constructor was given, or none;
\* resolve() with nothing above the default assigns the default when one
\* was given, None included, and assigns nothing when none was; and no
\* resolve() assigns a default that was not given
C22_DefaultIffSupplied ==
    /\ (last.op = "AppConfig" /\ last.exc = "None") =>
          /\ appcfg.has_default = last.args.kw.has_default
          /\ appcfg.has_default =>
                appcfg.default_value = last.args.kw.default_value
    /\ C22_Case =>
          IF last.ac.has_default
          THEN SourceCommits("default", last.ac.default_value,
                             [exc |-> "None", val |-> last.ac.default_value])
          ELSE last.writes = <<>>
    /\ (last.op = "resolve" /\ ~last.ac.has_default) =>
          \A i \in 1..Len(last.writes) : last.writes[i].src # "default"

\* a default of None replaces the value 5 of the record
C22_Witness ==
    /\ C22_Case
    /\ last.ac.has_default
    /\ last.ac.default_value = NoneV
    /\ last.exc = "None"
    /\ last.pre.hasvalue
    /\ last.pre.value = IntV(5)
    /\ Destination.hasvalue
    /\ Destination.value = NoneV

\* no call on the object changes whether it has a default, or the default
C22_DefaultKept ==
    [][appcfg.isset =>
          /\ appcfg'.has_default = appcfg.has_default
          /\ appcfg'.default_value = appcfg.default_value]_vars

(***************************************************************************)
(* C23.  add_namespace(name) on a name already registered raises           *)
(* ConfigManagerDuplicateNamespace and leaves the registry unchanged, the  *)
(* existing namespace and its properties included; on an unregistered      *)
(* valid name it registers and returns the new namespace, and if building  *)
(* the new namespace fails nothing is registered.                          *)
(***************************************************************************)
\* the names of the properties add_namespace was given for the namespace
C23_Given == {last.args.kwargs[i][1] : i \in 1..Len(last.args.kwargs)}

\* add_namespace was called with a name of the namespace grammar
C23_Case ==
    /\ last.op = "add_namespace"
    /\ NamespaceGrammar(last.args.nspc)

\* the namespace was registered under the name, next to the others
C23_Registered ==
    /\ last.ret = last.args.nspc
    /\ DOMAIN configuration_manager.namespaces
          = DOMAIN last.pre.namespaces \cup {last.args.nspc}
    /\ \A k \in DOMAIN last.pre.namespaces :
          configuration_manager.namespaces[k] = last.pre.namespaces[k]
    /\ NsName(configuration_manager.namespaces[last.args.nspc])
          = last.args.nspc
    /\ PropertiesOf(configuration_manager.namespaces[last.args.nspc])
          = C23_Given

\* C23: a registered name is refused and the registry is as it was; an
\* unregistered name is registered when its namespace can be built, and
\* the registry is as it was when it cannot
C23_DuplicateRefused ==
    C23_Case =>
        IF last.args.nspc \in DOMAIN last.pre.namespaces
        THEN /\ last.exc = "ConfigManagerDuplicateNamespace"
             /\ configuration_manager = last.pre
        ELSE /\ last.exc = "None" => C23_Registered
             /\ last.exc # "None" => configuration_manager = last.pre
             /\ ( \A k \in C23_Given :
                      PropertyGrammar(k) /\ k # NAME_KEY ) =>
                   last.exc = "None"

\* a registered namespace that holds a property is offered again, with
\* other properties
C23_Witness ==
    /\ C23_Case
    /\ last.args.nspc \in DOMAIN last.pre.namespaces
    /\ PropertiesOf(last.pre.namespaces[last.args.nspc]) # {}
    /\ C23_Given # {}
    /\ C23_Given \cap PropertiesOf(last.pre.namespaces[last.args.nspc]) = {}
    /\ last.exc = "ConfigManagerDuplicateNamespace"

\* an unregistered name the namespace of which cannot be built
C23_BuildFails ==
    /\ C23_Case
    /\ last.args.nspc \notin DOMAIN last.pre.namespaces
    /\ last.exc = "ConfigPropertyBadName"
    /\ configuration_manager = last.pre

(***************************************************************************)
(* C24.  isnsnamevalid accepts exactly the names made of one or more       *)
(* dot-separated segments each matching [A-Za-z][A-Za-z0-9_]*, plus the    *)
(* reserved default name, and rejects every other string.                  *)
(***************************************************************************)
\* C24: the test is true of a string exactly when the string is of the
\* namespace grammar
C24_NsGrammar ==
    last.op = "isnsnamevalid" =>
        (last.ret <=> NamespaceGrammar(last.args.name))

\* a name, and the name without its last character when that is a newline
C24_Bodies(name) ==
    IF Len(name) >= 1 /\ name[Len(name)] = "\n"
    THEN {name, SubSeq(name, 1, Len(name) - 1)} ELSE {name}

\* what the test accepts: a first segment of the property grammar, then
\* segments that may also start with an underscore, then at most one
\* newline; or the default name
C24_Accepted(name) ==
    \/ name = DEFAULT_NS
    \/ \E body \in C24_Bodies(name) :
          /\ Len(body) >= 1
          /\ body[1] \in Lower \cup Upper
          /\ body[Len(body)] # NS_SEP
          /\ \A i \in 2..Len(body) :
                IF body[i - 1] = NS_SEP
                THEN body[i] \in Lower \cup Upper \cup {"_"}
                ELSE body[i] \in Lower \cup Upper \cup Digit
                                 \cup {"_", NS_SEP}

\* the test is true of a string exactly when the string is of the wider
\* language above
C24_NsAccepted ==
    last.op = "isnsnamevalid" =>
        (last.ret <=> C24_Accepted(last.args.name))

\* the property test is true of a string exactly when the string is of
\* the property grammar, or is such a string followed by one newline
C24_PropertyAccepted ==
    last.op = "ispropertynamevalid" =>
        ( last.ret <=>
            \/ PropertyGrammar(last.args.name)
            \/ /\ Len(last.args.name) >= 2
               /\ last.args.name[Len(last.args.name)] = "\n"
               /\ PropertyGrammar(SubSeq(last.args.name, 1,
                                         Len(last.args.name) - 1)) )

(***************************************************************************)
(* C25.  has_property(name), for a grammatical name, returns True exactly  *)
(* when a property called name has been added to the namespace, at         *)
(* construction, by add_property or by add_properties; it returns False    *)
(* for every grammatical name on a namespace constructed with no           *)
(* properties.                                                             *)
(***************************************************************************)
\* the names of the properties a call on the namespace was given
C25_Offered(call) ==
    IF call.op = "add_property" THEN {call.args.name}
    ELSE IF call.op \in {"add_properties", "ConfigNamespace"}
    THEN {call.args.batch[i][1] : i \in 1..Len(call.args.batch)}
    ELSE {}

\* the property records of the namespace are the properties added to it:
\* a call that returns adds the properties it was given, to those there
\* were or, for the constructor, to none, and no other step adds or
\* removes one
C25_AddedOnly ==
    [][PropertiesOf(namespace')
         = IF last'.op \in {"add_property", "add_properties"}
              /\ last'.exc = "None"
           THEN PropertiesOf(namespace) \cup C25_Offered(last')
           ELSE IF last'.op = "ConfigNamespace" /\ last'.exc = "None"
           THEN C25_Offered(last')
           ELSE PropertiesOf(namespace)]_vars

C25_Case ==
    /\ last.op = "has_property"
    /\ PropertyGrammar(last.args.name)

\* C25: has_property of a grammatical name returns, and returns whether
\* the namespace holds a property of that name
C25_HasIffAdded ==
    C25_Case =>
        /\ last.exc = "None"
        /\ last.ret <=> last.args.name \in PropertiesOf(last.pre)

\* the same, for every name but 'name'
C25_HasIffAddedButName ==
    (C25_Case /\ last.args.name # NAME_KEY) =>
        /\ last.exc = "None"
        /\ last.ret <=> last.args.name \in PropertiesOf(last.pre)

(***************************************************************************)
(* C26.  If the value of the highest-priority yielding source is rejected  *)
(* by the destination's validate hook, resolve() propagates the            *)
(* validator's exception, leaves the destination's stored value as it was  *)
(* and does not fall through to a lower source or to the default.          *)
(***************************************************************************)
\* the first value resolve() assigned is one the validator of the
\* destination rejects
C26_Case ==
    /\ last.op = "resolve"
    /\ last.writes # <<>>
    /\ last.pre.validate = "tstvalidate"
    /\ tstvalidate(last.pre.name, last.writes[1].val)
          = "ValidationException"

\* C26: resolve() raises the validator's exception, the record is as it
\* was and no second assignment was tried
C26_RejectionPropagates ==
    C26_Case =>
        /\ last.exc = "ValidationException"
        /\ Len(last.writes) = 1
        /\ Destination = last.pre

\* the environment's empty string is rejected although a default that the
\* validator accepts is configured
C26_Witness ==
    /\ C26_Case
    /\ last.writes[1].src = "env"
    /\ last.ac.has_default
    /\ last.ac.default_value = IntV(9)
    /\ last.exc = "ValidationException"
    /\ Destination.value = IntV(5)

(***************************************************************************)
(* C27.  A property lookup never changes the registry: after               *)
(* getConfigRecord(fqname, ornearest), whether it returns a record or      *)
(* raises, the registered namespace names and the properties of each       *)
(* namespace are what they were before the call.                           *)
(***************************************************************************)
\* getConfigRecord was called with the registry in place
C27_Case ==
    /\ last.op = "getConfigRecord"
    /\ last.pre.isset

\* the names registered by the call
C27_New ==
    DOMAIN configuration_manager.namespaces \ DOMAIN last.pre.namespaces

\* C27: the registry after getConfigRecord is the registry before it
C27_LookupKeepsRegistry ==
    C27_Case =>
        /\ C27_New = {}
        /\ \A k \in DOMAIN last.pre.namespaces :
              PropertiesOf(configuration_manager.namespaces[k])
                  = PropertiesOf(last.pre.namespaces[k])

\* what the call does keep: the namespaces there were are as they were,
\* and at most one namespace is registered, empty, under a name that is a
\* dot-prefix of fqname or the caller's module
C27_KeepsRegistered ==
    C27_Case =>
        /\ \A k \in DOMAIN last.pre.namespaces :
              configuration_manager.namespaces[k] = last.pre.namespaces[k]
        /\ Cardinality(C27_New) <= 1
        /\ \A k \in C27_New :
              /\ k \in DotPrefixes(last.args.fqname) \cup {last.args.caller}
              /\ PropertiesOf(configuration_manager.namespaces[k]) = {}

\* a lookup that fails and leaves a namespace behind
C27_Leftover ==
    /\ C27_Case
    /\ last.exc = "ConfigPropertyNotFound"
    /\ C27_New = {AB}

(***************************************************************************)
(* C28.  resolve() returns the destination's committed value; when no      *)
(* source yields and the destination was never assigned, resolve() raises  *)
(* ConfigPropertyValueNotSet and the property is still unset.              *)
(***************************************************************************)
\* C28: a resolve() that returns, returns the value the destination holds;
\* with nothing to assign to a destination that has no value it raises
\* ConfigPropertyValueNotSet and leaves it without one, and it raises that
\* in no other case
C28_ReturnsCommitted ==
    /\ (last.op = "resolve" /\ last.exc = "None") =>
          /\ Destination.hasvalue
          /\ last.ret = Destination.value
          /\ last.writes # <<>> => last.ret = last.writes[1].val
          /\ last.writes = <<>> => last.ret = last.pre.value
    /\ (NothingYields /\ ~last.pre.hasvalue) =>
          /\ last.exc = "ConfigPropertyValueNotSet"
          /\ ~Destination.hasvalue
    /\ (last.op = "resolve" /\ last.exc = "ConfigPropertyValueNotSet") =>
          /\ last.writes = <<>>
          /\ ~last.pre.hasvalue

\* resolve() returns the dictionary's 3, which replaced the 5 of the record
C28_Witness ==
    /\ last.op = "resolve"
    /\ last.exc = "None"
    /\ last.writes # <<>>
    /\ last.writes[1].src = "dict"
    /\ last.pre.value = IntV(5)
    /\ last.ret = IntV(3)
    /\ Destination.value = IntV(3)

\* resolve() on an unset destination with nothing to assign
C28_UnsetRaises ==
    /\ NothingYields
    /\ ~last.pre.hasvalue
    /\ last.exc = "ConfigPropertyValueNotSet"

(***************************************************************************)
(* C29.  After any sequence of add_property, add_properties, value         *)
(* assignments and record renames, successful or failing, every property   *)
(* stored in a namespace under key k is a record whose name equals k, and  *)
(* k satisfies the property grammar.                                       *)
(***************************************************************************)
\* every property record of ns is stored under its own name
KeyIsName(ns) == \A k \in PropertiesOf(ns) : ns[k].name = k

\* C29: each property record of the namespace is stored under its name,
\* and the name is of the property grammar
C29_KeyedByName ==
    /\ KeyIsName(namespace)
    /\ \A k \in PropertiesOf(namespace) : PropertyGrammar(k)

\* the keys satisfy the grammar but for a trailing newline, and the names
\* of the records do too
C29_KeysAccepted ==
    \A k \in PropertiesOf(namespace) :
        /\ PropertyGrammar(k) \/ k = FOONL
        /\ PropertyGrammar(namespace[k].name) \/ namespace[k].name = FOONL

\* no step but a rename that returns parts a key from the name of its
\* record
C29_OnlyRenameParts ==
    [][(KeyIsName(namespace) /\ ~KeyIsName(namespace'))
          => (last'.op = "set_name" /\ last'.exc = "None")]_vars

\* a record stored under foo is renamed bar
C29_Renamed ==
    /\ last.op = "set_name"
    /\ last.exc = "None"
    /\ FOO \in PropertiesOf(namespace)
    /\ namespace[FOO].name = BAR

(***************************************************************************)
(* C30.  The singleton accessor has no locking: when two threads call      *)
(* getConfigManager() (or getConfig) concurrently while the singleton is   *)
(* unset, an interleaving exists in which both observe it unset and each   *)
(* constructs a registry, so the two callers obtain different instances    *)
(* and namespaces added through the first-stored instance are lost; with   *)
(* calls serialised by the caller this state is unreachable.               *)
(***************************************************************************)
\* the registry objects the global does not refer to
C30_Dropped ==
    IF configuration_manager.isset
    THEN (1..Len(heap)) \ {configuration_manager.id}
    ELSE {}

\* a registry the global no longer refers to holds a namespace that the
\* registry of the global does not
C30_Lost ==
    \E i \in C30_Dropped :
        DOMAIN heap[i].namespaces
            \ DOMAIN heap[configuration_manager.id].namespaces # {}

\* C30: every registry was constructed by a thread that observed the
\* global unset, and there is more than one only when the callers keep no
\* lock: with the calls serialised one registry is constructed, every
\* caller obtains the one the global refers to and no namespace is lost
C30_SerialisedOneInstance ==
    /\ \A i \in 1..Len(heap) :
           \E t \in Threads : threads[t].saw /\ threads[t].made = i
    /\ lock # NOLOCK =>
           /\ Len(heap) <= 1
           /\ \A t \in Threads :
                  threads[t].mgr # 0 =>
                      threads[t].mgr = configuration_manager.id
           /\ ~C30_Lost

\* without a lock both threads observed the global unset, each
\* constructed a registry, they obtained different ones and a namespace
\* added through the one stored first is not in the one the global keeps
C30_TwoInstances ==
    /\ lock = NOLOCK
    /\ \A t \in Threads : threads[t].saw /\ threads[t].pc = "idle"
    /\ Len(heap) = 2
    /\ threads["t1"].mgr # 0
    /\ threads["t2"].mgr # 0
    /\ threads["t1"].mgr # threads["t2"].mgr
    /\ C30_Lost


=============================================================================
